---- MODULE Spec2Model ----
(***************************************************************************)
(* A model of the ticket-to-pull-request pipeline in src/app/prgen:        *)
(* reference extraction (context_parsing.py), external reference           *)
(* resolution and budget allocation (pipeline.py gather_external_context,  *)
(* ai_integration.py), and response parsing / patch application / the run  *)
(* (pipeline.py generate_changes_with_ai, apply_patches, run_pipeline).     *)
(*                                                                         *)
(* Texts are TLA+ strings; every Python string operation the code uses is  *)
(* an operator below that computes what the Python operation computes.     *)
(* Two characters that a TLA+ source cannot hold are written by stand-ins   *)
(* that occur nowhere else in the texts of the model: "~" is the single    *)
(* character U+2026 (the ellipsis of the placeholder) and "^" is the       *)
(* back-tick U+0060. In the fixed sentences of the prompt "=" is the       *)
(* non-breaking hyphen U+2011.                                             *)
(***************************************************************************)
EXTENDS Integers, Sequences, FiniteSets, TLC

VARIABLES
    pc,        \* position of the modelled flow
    env,       \* configuration: arguments and environment settings
    desc,      \* the ticket description handed to TicketContext
    ctx,       \* the TicketContext fields
    reparsed,  \* the TicketContext fields of the residual instructions
    blocks,    \* the order-preserving mapping label -> text (a sequence of entries)
    k,         \* the index of the running loop
    calls,     \* the external calls issued so far, in order
    summarized, \* the mapping the summarization loop is filling
    raised,    \* the exception that left the modelled function: [exc, msg]
    reply,     \* the text the generation call returned (json_text)
    patches,   \* the value generate_changes_with_ai returned
    files,     \* the files written to the checkout, in writing order
    out,       \* what the run printed for diagnosis
    snippets,  \* the mapping path -> content that gather_candidate_files is filling
    external_blocks, \* the mapping handed to build_prompt
    prompts,   \* the prompt texts that build_prompt returned, one per call
    status,    \* the completion status of the process, "running" until it ends
    repo_url,  \* the repository url that extract_repo_url returned
    branch_name \* the branch that clone_and_branch returned

vars ==
    <<pc, env, desc, ctx, reparsed, blocks, k, calls, summarized, raised, reply, patches,
      files, out, snippets, external_blocks, prompts, status, repo_url, branch_name>>

NoExc == "none"

Backtick == "^"

(***************************************************************************)
(* Python string operations                                                *)
(***************************************************************************)
Max(a, b) == IF a >= b THEN a ELSE b

Min(a, b) == IF a <= b THEN a ELSE b

\* s[i-1:i]: the character at position i (from 1), "" outside the string
CharAt(s, i) == IF 1 <= i /\ i <= Len(s) THEN SubSeq(s, i, i) ELSE ""

\* s[i-1:j] with Python's clipping of the ends
Slice(s, i, j) ==
    LET a == IF i < 1 THEN 1 ELSE i
        b == IF j > Len(s) THEN Len(s) ELSE j
    IN IF a > b THEN "" ELSE SubSeq(s, a, b)

\* str.isspace for one character
IsSpace(c) == c \in {" ", "\n", "\t", "\r"}

\* str.lstrip(chars) and str.rstrip(chars)
LStripChars(s, chars) ==
    IF \A i \in 1..Len(s) : CharAt(s, i) \in chars THEN ""
    ELSE Slice(s, CHOOSE i \in 1..Len(s) :
                      /\ CharAt(s, i) \notin chars
                      /\ \A j \in 1..(i - 1) : CharAt(s, j) \in chars,
               Len(s))

RStripChars(s, chars) ==
    IF \A i \in 1..Len(s) : CharAt(s, i) \in chars THEN ""
    ELSE Slice(s, 1, CHOOSE i \in 1..Len(s) :
                         /\ CharAt(s, i) \notin chars
                         /\ \A j \in (i + 1)..Len(s) : CharAt(s, j) \in chars)

\* str.strip(), str.lstrip(), str.rstrip()
LStrip(s) == LStripChars(s, {" ", "\n", "\t", "\r"})

RStrip(s) == RStripChars(s, {" ", "\n", "\t", "\r"})

Strip(s) == LStrip(RStrip(s))

\* str.startswith / str.endswith
StartsWith(s, p) == Len(s) >= Len(p) /\ SubSeq(s, 1, Len(p)) = p

EndsWith(s, p) == Len(s) >= Len(p) /\ SubSeq(s, Len(s) - Len(p) + 1, Len(s)) = p

\* s[n:] and s[:n] and s[:-n] for n >= 0
DropFirst(s, n) == Slice(s, n + 1, Len(s))

TakeFirst(s, n) == Slice(s, 1, n)

DropLast(s, n) == Slice(s, 1, Len(s) - n)

\* sub in s
Contains(s, sub) ==
    \E i \in 1..(Len(s) - Len(sub) + 1) : SubSeq(s, i, i + Len(sub) - 1) = sub

\* "".join(parts)
RECURSIVE Join(_)
Join(parts) == IF parts = <<>> THEN "" ELSE Head(parts) \o Join(Tail(parts))

\* str(n) for n >= 0
DigitChar(d) == CharAt("0123456789", d + 1)

RECURSIVE IntToStr(_)
IntToStr(n) == IF n < 10 THEN DigitChar(n) ELSE IntToStr(n \div 10) \o DigitChar(n % 10)

SetMin(S) == CHOOSE x \in S : \A y \in S : x <= y

\* the length of the maximal run, from position i, of characters in chars
\* (neg = FALSE) or not in chars (neg = TRUE)
RunLen(s, i, chars, neg) ==
    IF i > Len(s) THEN 0
    ELSE (CHOOSE j \in i..(Len(s) + 1) :
              /\ j = Len(s) + 1 \/ (CharAt(s, j) \in chars) = neg
              /\ \A l \in i..(j - 1) : (CharAt(s, l) \in chars) # neg) - i

Whitespace == {" ", "\n", "\t", "\r"}

\* str.split("/"): the segments of a path between its separators
RECURSIVE SegmentsFrom(_, _)
SegmentsFrom(path, i) ==
    IF i > Len(path) + 1 THEN <<>>
    ELSE LET n == RunLen(path, i, {"/"}, TRUE)
         IN <<Slice(path, i, i + n - 1)>> \o SegmentsFrom(path, i + n + 1)

\* str.lower() on the letters A-Z
RECURSIVE Lower(_)
Lower(s) ==
    IF s = "" THEN ""
    ELSE LET c == CharAt(s, 1)
             at == {i \in 1..26 : CharAt("ABCDEFGHIJKLMNOPQRSTUVWXYZ", i) = c}
         IN (IF at = {} THEN c ELSE CharAt("abcdefghijklmnopqrstuvwxyz", SetMin(at)))
                \o Lower(DropFirst(s, 1))

\* str.split(): the maximal runs of non-whitespace characters
RECURSIVE SplitFrom(_, _)
SplitFrom(s, i) ==
    LET a == i + RunLen(s, i, Whitespace, FALSE)
        n == RunLen(s, a, Whitespace, TRUE)
    IN IF n = 0 THEN <<>> ELSE <<Slice(s, a, a + n - 1)>> \o SplitFrom(s, a + n)

Split(s) == SplitFrom(s, 1)

(***************************************************************************)
(* textwrap.shorten(text, width, placeholder="\n…\n"), as the standard     *)
(* library computes it: collapse whitespace, then TextWrapper.fill with     *)
(* max_lines = 1.  A result is [exc, msg, val]: exc is NoExc and val the    *)
(* text, or exc is the type and msg the message of the exception raised.   *)
(***************************************************************************)
Placeholder == "\n~\n"

Ok(v) == [exc |-> NoExc, msg |-> "", val |-> v]

Exc(t, m) == [exc |-> t, msg |-> m, val |-> ""]

\* TextWrapper._split_chunks on whitespace-collapsed text without hyphens:
\* the words, separated by single-space chunks
RECURSIVE Chunks(_)
Chunks(words) ==
    IF words = <<>> THEN <<>>
    ELSE IF Len(words) = 1 THEN words
    ELSE <<Head(words), " ">> \o Chunks(Tail(words))

\* the inner loop of _wrap_chunks: chunks are taken while they fit
RECURSIVE TakeFitting(_, _, _, _)
TakeFitting(chunks, line, len, width) ==
    IF chunks # <<>> /\ len + Len(Head(chunks)) <= width
    THEN TakeFitting(Tail(chunks), Append(line, Head(chunks)), len + Len(Head(chunks)), width)
    ELSE [line |-> line, len |-> len, rest |-> chunks]

\* _handle_long_word (break_long_words is the default): the next chunk is
\* wider than the line, its first space_left characters go on the line
HandleLongWord(t, width) ==
    IF t.rest # <<>> /\ Len(Head(t.rest)) > width
    THEN LET space_left == IF width < 1 THEN 1 ELSE width - t.len
             chunk == Head(t.rest)
         IN [line |-> Append(t.line, TakeFirst(chunk, space_left)),
             len |-> t.len + Min(space_left, Len(chunk)),
             rest |-> <<DropFirst(chunk, space_left)>> \o Tail(t.rest)]
    ELSE t

\* drop_whitespace: a trailing whitespace chunk is removed from the line
DropTrailingSpace(t) ==
    IF t.line # <<>> /\ Strip(t.line[Len(t.line)]) = ""
    THEN [line |-> SubSeq(t.line, 1, Len(t.line) - 1),
          len |-> t.len - Len(t.line[Len(t.line)]),
          rest |-> t.rest]
    ELSE t

\* the last line of max_lines: chunks are dropped from the end until the
\* placeholder fits after a non-whitespace chunk
RECURSIVE Truncate(_, _, _)
Truncate(line, len, width) ==
    IF line = <<>> THEN LStrip(Placeholder)
    ELSE LET last == line[Len(line)]
         IN IF Strip(last) # "" /\ len + Len(Placeholder) <= width
            THEN Join(line) \o Placeholder
            ELSE Truncate(SubSeq(line, 1, Len(line) - 1), len - Len(last), width)

WrapOneLine(chunks, width) ==
    LET t == DropTrailingSpace(HandleLongWord(TakeFitting(chunks, <<>>, 0, width), width))
    IN IF t.line = <<>> THEN ""
       ELSE IF (t.rest = <<>> \/ (Len(t.rest) = 1 /\ Strip(t.rest[1]) = ""))
               /\ t.len <= width
            THEN Join(t.line)
            ELSE Truncate(t.line, t.len, width)

Shorten(text, width) ==
    IF width <= 0 THEN Exc("ValueError", "invalid width (must be > 0)")
    ELSE IF Len(LStrip(Placeholder)) > width
         THEN Exc("ValueError", "placeholder too large for max width")
         ELSE Ok(WrapOneLine(Chunks(Split(text)), width))

(***************************************************************************)
(* Regular expressions of the code, each computed on the string            *)
(***************************************************************************)
Digits == {"0", "1", "2", "3", "4", "5", "6", "7", "8", "9"}

HexDigits == Digits \cup {"a", "b", "c", "d", "e", "f", "A", "B", "C", "D", "E", "F"}

\* a match of <p>([^/]+)/([^/]+)<seg>(<cls>{lo,}) at position i
HostPatternAt(p, u, i, seg, cls, lo) ==
    LET a == i + Len(p)
        n1 == RunLen(u, a, {"/"}, TRUE)
        b == a + n1 + 1
        n2 == RunLen(u, b, {"/"}, TRUE)
        c == b + n2
        d == c + Len(seg)
        n3 == RunLen(u, d, cls, FALSE)
    IN IF /\ Slice(u, i, a - 1) = p
          /\ n1 >= 1
          /\ CharAt(u, a + n1) = "/"
          /\ n2 >= 1
          /\ Slice(u, c, d - 1) = seg
          /\ n3 >= lo
       THEN [ok |-> TRUE,
             owner |-> Slice(u, a, a + n1 - 1),
             repo |-> Slice(u, b, b + n2 - 1),
             tail |-> Slice(u, d, d + n3 - 1)]
       ELSE [ok |-> FALSE, owner |-> "", repo |-> "", tail |-> ""]

\* a match of https://github\.com/([^/]+)/([^/]+)<seg>(<cls>{lo,}) at position i
GithubMatchAt(u, i, seg, cls, lo) == HostPatternAt("https://github.com/", u, i, seg, cls, lo)

\* re.search of the three host-specific patterns
GithubSearch(u, seg, cls, lo) == \E i \in 1..Len(u) : GithubMatchAt(u, i, seg, cls, lo).ok

IsPrUrl(u) == GithubSearch(u, "/pull/", Digits, 1)

IsIssueUrl(u) == GithubSearch(u, "/issues/", Digits, 1)

IsCommitUrl(u) == GithubSearch(u, "/commit/", HexDigits, 6)

\* the length of the match of pattern kind that starts at position i, 0 if none
\*   "br"        <\s*br\s*/?\s*>          (IGNORECASE)
\*   "p_close"   </\s*p\s*>               (IGNORECASE)
\*   "tag"       <[^>]+>
\*   "url"       https?://[^\s)]+
\*   "file"      \{\{([^{}\n]*[/\\]?[^{}\n/\\]*\.(?:py|go|...|c|h))\}\}
\*   "backtick"  ^([^^\n]*[/\\]?[^^\n/\\]*\.(?:py|go|...|c|h))^   (^ is the back-tick)
\*   "github"    https://github\.com/[^\s]+
\*   "git"       [^\s]*\.git[^\s]*
FileExtensions ==
    {"py", "go", "js", "ts", "tsx", "java", "yaml", "json", "yml", "md", "txt", "sh",
     "jsx", "vue", "php", "rb", "cpp", "c", "h"}

HasFileExtension(content) == \E e \in FileExtensions : EndsWith(content, "." \o e)

MatchLenAt(kind, s, i) ==
    CASE kind = "br" ->
           LET a == i + 1 + RunLen(s, i + 1, Whitespace, FALSE)
               b == a + 2 + RunLen(s, a + 2, Whitespace, FALSE)
               c == IF CharAt(s, b) = "/" THEN b + 1 ELSE b
               d == c + RunLen(s, c, Whitespace, FALSE)
           IN IF /\ CharAt(s, i) = "<"
                 /\ CharAt(s, a) \in {"b", "B"}
                 /\ CharAt(s, a + 1) \in {"r", "R"}
                 /\ CharAt(s, d) = ">"
              THEN d - i + 1
              ELSE 0
      [] kind = "p_close" ->
           LET a == i + 2 + RunLen(s, i + 2, Whitespace, FALSE)
               b == a + 1 + RunLen(s, a + 1, Whitespace, FALSE)
           IN IF /\ Slice(s, i, i + 1) = "</"
                 /\ CharAt(s, a) \in {"p", "P"}
                 /\ CharAt(s, b) = ">"
              THEN b - i + 1
              ELSE 0
      [] kind = "tag" ->
           LET n == RunLen(s, i + 1, {">"}, TRUE)
           IN IF CharAt(s, i) = "<" /\ n >= 1 /\ CharAt(s, i + 1 + n) = ">"
              THEN n + 2
              ELSE 0
      [] kind = "url" ->
           LET p == IF Slice(s, i, i + 7) = "https://" THEN 8
                    ELSE IF Slice(s, i, i + 6) = "http://" THEN 7 ELSE 0
               n == RunLen(s, i + p, Whitespace \cup {")"}, TRUE)
           IN IF p > 0 /\ n >= 1 THEN p + n ELSE 0
      [] kind = "file" ->
           LET n == RunLen(s, i + 2, {"{", "}", "\n"}, TRUE)
           IN IF /\ Slice(s, i, i + 1) = "{{"
                 /\ Slice(s, i + 2 + n, i + 3 + n) = "}}"
                 /\ HasFileExtension(Slice(s, i + 2, i + 1 + n))
              THEN n + 4
              ELSE 0
      [] kind = "backtick" ->
           LET n == RunLen(s, i + 1, {Backtick, "\n"}, TRUE)
           IN IF /\ CharAt(s, i) = Backtick
                 /\ CharAt(s, i + 1 + n) = Backtick
                 /\ HasFileExtension(Slice(s, i + 1, i + n))
              THEN n + 2
              ELSE 0
      [] kind = "github" ->
           LET n == RunLen(s, i + 19, Whitespace, TRUE)
           IN IF Slice(s, i, i + 18) = "https://github.com/" /\ n >= 1 THEN 19 + n ELSE 0
      [] kind = "git" ->
           LET n == RunLen(s, i, Whitespace, TRUE)
           IN IF Contains(Slice(s, i, i + n - 1), ".git") THEN n ELSE 0

\* the text of group 1 of a match of length n at i (the whole match for "url")
MatchGroup(kind, s, i, n) ==
    CASE kind = "file" -> Slice(s, i + 2, i + n - 3)
      [] kind = "backtick" -> Slice(s, i + 1, i + n - 2)
      [] OTHER -> Slice(s, i, i + n - 1)

\* the position of the leftmost match at or after i, 0 if none
NextMatch(kind, s, i) ==
    LET M == {j \in i..Len(s) : MatchLenAt(kind, s, j) > 0}
    IN IF M = {} THEN 0 ELSE SetMin(M)

\* re.findall(pattern, s): the leftmost non-overlapping matches, in order
RECURSIVE FindAllFrom(_, _, _)
FindAllFrom(kind, s, i) ==
    LET j == NextMatch(kind, s, i)
        n == MatchLenAt(kind, s, j)
    IN IF j = 0 THEN <<>>
       ELSE <<MatchGroup(kind, s, j, n)>> \o FindAllFrom(kind, s, j + n)

FindAll(kind, s) == FindAllFrom(kind, s, 1)

\* re.sub(pattern, repl, s)
RECURSIVE ReSubFrom(_, _, _, _)
ReSubFrom(kind, repl, s, i) ==
    LET j == NextMatch(kind, s, i)
        n == MatchLenAt(kind, s, j)
    IN IF j = 0 THEN Slice(s, i, Len(s))
       ELSE Slice(s, i, j - 1) \o repl \o ReSubFrom(kind, repl, s, j + n)

ReSub(kind, repl, s) == ReSubFrom(kind, repl, s, 1)

(***************************************************************************)
(* The order-preserving mapping label -> text (a Python dict)              *)
(***************************************************************************)
Entry(label, text) == [label |-> label, text |-> text]

HasLabel(m, label) == \E i \in 1..Len(m) : m[i].label = label

\* m[label] = text: an existing key keeps its place, a new key goes last
Put(m, label, text) ==
    IF HasLabel(m, label)
    THEN [i \in 1..Len(m) |-> IF m[i].label = label THEN Entry(label, text) ELSE m[i]]
    ELSE Append(m, Entry(label, text))

RECURSIVE SumLen(_)
SumLen(m) == IF m = <<>> THEN 0 ELSE Len(Head(m).text) + SumLen(Tail(m))

(***************************************************************************)
(* external_fetchers.py                                                    *)
(***************************************************************************)
\* _strip_html; html.unescape changes only texts that hold "&", which the
\* pages of the model do not
StripHtml(html) == Strip(ReSub("tag", "", ReSub("p_close", "\n\n", ReSub("br", "\n", html))))

\* urlparse(url).path and .query
UrlPath(url) ==
    LET a == IF Contains(url, "://")
             THEN (CHOOSE i \in 1..Len(url) :
                       /\ Slice(url, i, i + 2) = "://"
                       /\ \A j \in 1..(i - 1) : Slice(url, j, j + 2) # "://") + 3
             ELSE 1
        b == a + RunLen(url, a, {"/", "?", "#"}, TRUE)
    IN Slice(url, b, b + RunLen(url, b, {"?", "#"}, TRUE) - 1)

UrlQuery(url) ==
    LET n == RunLen(url, 1, {"?", "#"}, TRUE)
    IN IF CharAt(url, n + 1) = "?"
       THEN Slice(url, n + 2, n + 1 + RunLen(url, n + 2, {"#"}, TRUE))
       ELSE ""

\* re.search(r"/pages/(\d+)", path), else parse_qs(query)['pageId'][0]
PageId(url) ==
    LET path == UrlPath(url)
        query == UrlQuery(url)
        P == {i \in 1..Len(path) :
                  Slice(path, i, i + 6) = "/pages/" /\ RunLen(path, i + 7, Digits, FALSE) >= 1}
        Q == {i \in 1..Len(query) :
                  /\ Slice(query, i, i + 6) = "pageId="
                  /\ (i = 1 \/ CharAt(query, i - 1) = "&")
                  /\ RunLen(query, i + 7, {"&"}, TRUE) >= 1}
    IN IF P # {}
       THEN LET i == CHOOSE i \in P : \A j \in P : i <= j
            IN Slice(path, i + 7, i + 6 + RunLen(path, i + 7, Digits, FALSE))
       ELSE IF Q # {}
            THEN LET i == CHOOSE i \in Q : \A j \in Q : i <= j
                 IN Slice(query, i + 7, i + 6 + RunLen(query, i + 7, {"&"}, TRUE))
            ELSE ""

\* What the documentation host can answer with status 200: a title and a body
ConfluencePages == {<<"Design", "<p>ab cd</p>">>, <<"Empty", "">>}

\* fetch_confluence_page(url): every result the call can have
fetch_confluence_page(url, e) ==
    IF PageId(url) = ""
    THEN {Exc("ValueError", "Could not extract Confluence pageId from URL: " \o url)}
    ELSE IF ~e.jira_creds
         THEN {Exc("RuntimeError",
                   "JIRA_EMAIL and JIRA_TOKEN are required to read Confluence content")}
         ELSE {Exc("RuntimeError", "Confluence API error 404: ")}
              \cup {Ok(<<pg[1], StripHtml(pg[2])>>) : pg \in ConfluencePages}

PerFileBudget == 3000

\* What the source-control host can answer for a pull request: title, author,
\* state, URL, body, and the changed files (filename, status, counts, patch)
PullRequests ==
    {[title |-> "Add", login |-> "eve", state |-> "open", body |-> "why\nhow",
      files |-> <<[filename |-> "a.py", status |-> "modified", additions |-> 1,
                   deletions |-> 0, patch |-> "@@ x\n+y"]>>]}

PrHeader(pr, url) ==
    "Title: " \o pr.title \o "\nAuthor: " \o pr.login \o "\nState: " \o pr.state
        \o "\nURL: " \o url \o "\n\nBody:\n" \o pr.body

FileText(f) ==
    "--- " \o f.filename \o " (" \o f.status \o ", +" \o IntToStr(f.additions) \o "/-"
        \o IntToStr(f.deletions) \o ") ---\n" \o Shorten(f.patch, PerFileBudget).val

RECURSIVE JoinWith(_, _)
JoinWith(sep, parts) ==
    IF parts = <<>> THEN ""
    ELSE IF Len(parts) = 1 THEN parts[1]
    ELSE Head(parts) \o sep \o JoinWith(sep, Tail(parts))

\* the sections of one pull request: PR, and FILES when it changed files
PrSections(pr, url) ==
    <<Entry("PR", Shorten(PrHeader(pr, url), PerFileBudget).val)>>
        \o (IF pr.files = <<>> THEN <<>>
            ELSE <<Entry("FILES",
                         JoinWith("\n", [i \in 1..Len(pr.files) |-> FileText(pr.files[i])]))>>)

\* fetch_github_pr_context(gh, pr_url): every result the call can have
fetch_github_pr_context(url) ==
    IF ~GithubMatchAt(url, 1, "/pull/", Digits, 1).ok
    THEN {Exc("ValueError", "Unsupported PR URL: " \o url)}
    ELSE {Exc("GithubException", "404")}
         \cup {Ok(PrSections(pr, url)) : pr \in PullRequests}

\* What a generic page can answer: status, content type, body
GenericResponses ==
    {[status |-> 200, ctype |-> "text/html", text |-> "<p>abcdefghijkl mn</p><br/>op"],
     [status |-> 200, ctype |-> "text/plain", text |-> ""],
     [status |-> 503, ctype |-> "text/plain", text |-> "down"]}

\* fetch_generic_page(url): every result the call can have
fetch_generic_page(url) ==
    {IF r.status # 200
     THEN Exc("RuntimeError", "HTTP " \o IntToStr(r.status) \o ": " \o TakeFirst(r.text, 200))
     ELSE Ok(<<url, IF Contains(r.ctype, "html") THEN StripHtml(r.text) ELSE r.text>>)
     : r \in GenericResponses}

(***************************************************************************)
(* ai_integration.py                                                       *)
(***************************************************************************)
\* What the language-model capability can answer to a summarization prompt
SummaryTexts == {" a summary far longer than it was asked for\n"}

\* call_gemini(prompt): every result the call can have, given the texts the
\* model may answer; the answer is returned stripped
call_gemini(e, answers) ==
    IF ~e.api_key
    THEN {Exc("RuntimeError", "GEMINI_API_KEY env var missing.")}
    ELSE {Exc("Exception", "generation failed")} \cup {Ok(Strip(t)) : t \in answers}

\* summarize_text_with_gemini(text, label, char_limit, ...), given the result
\* g of its call_gemini: shorten the summary, and on any exception of the
\* try block shorten the raw text instead
summarize_text_with_gemini(text, char_limit, g) ==
    LET t == IF g.exc = NoExc THEN Shorten(g.val, char_limit) ELSE g
    IN IF t.exc = NoExc THEN t ELSE Shorten(text, char_limit)

(***************************************************************************)
(* pipeline.py: gather_external_context                                    *)
(***************************************************************************)
MinSummaryLimit == 500

ErrorLabel(kind, idx) == kind \o "[" \o IntToStr(idx) \o "] ERROR"

FailText(url, r) == "Failed to fetch " \o url \o ": " \o r.msg

\* an except branch that swallowed the failure without recording a block
SwallowFetchError(m, kind, idx, url, r) == m

\* the except branch of a fetch: one error block for the reference
OnFetchError(m, kind, idx, url, r) == Put(m, ErrorLabel(kind, idx), FailText(url, r))

TitledLabel(kind, idx, title) == kind \o "[" \o IntToStr(idx) \o "]: " \o title

RECURSIVE PutSections(_, _, _)
PutSections(m, idx, sections) ==
    IF sections = <<>> THEN m
    ELSE PutSections(Put(m, "GITHUB_PR[" \o IntToStr(idx) \o "] " \o Head(sections).label,
                         Head(sections).text),
                     idx, Tail(sections))

\* an order of the three loops with the generic pages before the pull requests
RECURSIVE ResolveGenericFirst(_, _, _, _)
ResolveGenericFirst(c, g, ph, i) ==
    CASE ph = "conf" ->
           IF i <= Len(c.confluence_urls) THEN [pc |-> "conf", k |-> i]
           ELSE ResolveGenericFirst(c, g, "web", 1)
      [] ph = "web" ->
           IF i <= Len(c.generic_urls) THEN [pc |-> "web", k |-> i]
           ELSE ResolveGenericFirst(c, g, "pr", 1)
      [] ph = "pr" ->
           IF g /\ i <= Len(c.github_pr_urls) THEN [pc |-> "pr", k |-> i]
           ELSE [pc |-> "alloc", k |-> 0]

\* the next fetch of the three loops, from loop ph at index i on; the
\* code-review loop is skipped when there is no client
RECURSIVE ResolvePos(_, _, _, _)
ResolvePos(c, g, ph, i) ==
    CASE ph = "conf" ->
           IF i <= Len(c.confluence_urls) THEN [pc |-> "conf", k |-> i]
           ELSE ResolvePos(c, g, "pr", 1)
      [] ph = "pr" ->
           IF g /\ i <= Len(c.github_pr_urls) THEN [pc |-> "pr", k |-> i]
           ELSE ResolvePos(c, g, "web", 1)
      [] ph = "web" ->
           IF i <= Len(c.generic_urls) THEN [pc |-> "web", k |-> i]
           ELSE [pc |-> "alloc", k |-> 0]

Call(op, arg, r) == [op |-> op, arg |-> arg, ok |-> r.exc = NoExc, err |-> r.msg]

GatherFrame ==
    UNCHANGED <<env, desc, ctx, reparsed, reply, patches, files, out, snippets,
                external_blocks, prompts, status,
                repo_url, branch_name>>

FetchConfluence ==
    /\ pc = "conf"
    /\ LET url == ctx.confluence_urls[k]
           nxt == ResolvePos(ctx, env.gh, "conf", k + 1)
       IN \E r \in fetch_confluence_page(url, env) :
              /\ blocks' = IF r.exc = NoExc
                           THEN Put(blocks, TitledLabel("CONFLUENCE", k, r.val[1]), r.val[2])
                           ELSE OnFetchError(blocks, "CONFLUENCE", k, url, r)
              /\ calls' = Append(calls, Call("fetch_confluence_page", url, r))
              /\ pc' = nxt.pc
              /\ k' = nxt.k
    /\ UNCHANGED <<summarized, raised>>
    /\ GatherFrame

FetchPr ==
    /\ pc = "pr"
    /\ LET url == ctx.github_pr_urls[k]
           nxt == ResolvePos(ctx, env.gh, "pr", k + 1)
       IN \E r \in fetch_github_pr_context(url) :
              /\ blocks' = IF r.exc = NoExc
                           THEN PutSections(blocks, k, r.val)
                           ELSE OnFetchError(blocks, "GITHUB_PR", k, url, r)
              /\ calls' = Append(calls, Call("fetch_github_pr_context", url, r))
              /\ pc' = nxt.pc
              /\ k' = nxt.k
    /\ UNCHANGED <<summarized, raised>>
    /\ GatherFrame

FetchGeneric ==
    /\ pc = "web"
    /\ LET url == ctx.generic_urls[k]
           nxt == ResolvePos(ctx, env.gh, "web", k + 1)
       IN \E r \in fetch_generic_page(url) :
              /\ blocks' = IF r.exc = NoExc
                           THEN Put(blocks, TitledLabel("WEB", k, r.val[1]), r.val[2])
                           ELSE OnFetchError(blocks, "WEB", k, url, r)
              /\ calls' = Append(calls, Call("fetch_generic_page", url, r))
              /\ pc' = nxt.pc
              /\ k' = nxt.k
    /\ UNCHANGED <<summarized, raised>>
    /\ GatherFrame

\* a summarization limit without the configured cap
PerSummaryLimitUncapped(budget, n, cap) == Max(budget \div Max(n, 1), MinSummaryLimit)

\* per_summary_limit
PerSummaryLimit(budget, n, cap) == Min(Max(budget \div Max(n, 1), MinSummaryLimit), cap)

\* a trim width that kept the floor of the summarization limit
PerBlockWithFloor(budget, n) == Max(budget \div n, MinSummaryLimit)

\* a trim width that is the whole budget, whatever the number of blocks
PerBlockOfWhole(budget, n) == Max(budget, 1)

\* per_block of the final trim
PerBlock(budget, n) == Max(budget \div n, 1)

\* an allocator that enters the summarization loop whatever the toggle says
AllocateIgnoringToggle ==
    /\ pc = "alloc"
    /\ pc' = IF blocks = <<>> THEN "returned" ELSE "summ"
    /\ k' = 1
    /\ summarized' = <<>>
    /\ UNCHANGED <<blocks, calls, raised>>
    /\ GatherFrame

\* "if not blocks: return blocks", then the choice of the summarization loop
Allocate ==
    /\ pc = "alloc"
    /\ pc' = IF blocks = <<>> THEN "returned" ELSE IF env.summarize THEN "summ" ELSE "trim"
    /\ k' = 1
    /\ summarized' = <<>>
    /\ UNCHANGED <<blocks, calls, raised>>
    /\ GatherFrame

\* one turn of the summarization loop; after the last turn blocks = summarized
Summarize ==
    /\ pc = "summ"
    /\ LET b == blocks[k]
           limit == PerSummaryLimit(env.budget, Len(blocks), env.cap)
       IN \E g \in call_gemini(env, SummaryTexts) :
              LET r == summarize_text_with_gemini(b.text, limit, g)
                  done == Put(summarized, b.label, r.val)
              IN /\ calls' = Append(calls, Call("call_gemini", b.label, g)
                                               @@ [char_limit |-> limit])
                 /\ IF r.exc # NoExc
                    THEN /\ raised' = [exc |-> r.exc, msg |-> r.msg]
                         /\ pc' = "raised"
                         /\ UNCHANGED <<blocks, summarized, k>>
                    ELSE /\ raised' = raised
                         /\ IF k = Len(blocks)
                            THEN /\ blocks' = done
                                 /\ summarized' = done
                                 /\ pc' = "trim"
                                 /\ k' = 1
                            ELSE /\ summarized' = done
                                 /\ pc' = "summ"
                                 /\ k' = k + 1
                                 /\ UNCHANGED blocks
    /\ GatherFrame

\* the final trim to budget, and the return
FinalTrim ==
    /\ pc = "trim"
    /\ LET per_block == PerBlock(env.budget, Len(blocks))
           t == [i \in 1..Len(blocks) |-> Shorten(blocks[i].text, per_block)]
       IN IF t[1].exc # NoExc
          THEN /\ raised' = [exc |-> t[1].exc, msg |-> t[1].msg]
               /\ pc' = "raised"
               /\ UNCHANGED blocks
          ELSE /\ blocks' = [i \in 1..Len(blocks) |-> Entry(blocks[i].label, t[i].val)]
               /\ pc' = "returned"
               /\ UNCHANGED raised
    /\ UNCHANGED <<k, calls, summarized>>
    /\ GatherFrame

(***************************************************************************)
(* The inputs of gather_external_context                                   *)
(***************************************************************************)
MaxRefs == 2

MaxBudget == 12

DefaultBudget == 20000

DefaultCap == 3000

SeqsUpTo(S, n) == UNION {[1..m -> S] : m \in 0..n}

GatherConfluenceUrls == {"https://w.atlassian.net/wiki/pages/7", "https://w/confluence"}

GatherPrUrls == {"https://github.com/o/r/pull/1"}

GatherGenericUrls == {"https://e.com/a"}

EmptyContext ==
    [file_paths |-> <<>>, confluence_urls |-> <<>>, github_pr_urls |-> <<>>,
     github_issue_urls |-> <<>>, github_commit_urls |-> <<>>, generic_urls |-> <<>>,
     instructions |-> ""]

GatherContexts ==
    {[EmptyContext EXCEPT !.confluence_urls = c, !.github_pr_urls = p, !.generic_urls = w] :
        c \in SeqsUpTo(GatherConfluenceUrls, MaxRefs),
        p \in SeqsUpTo(GatherPrUrls, MaxRefs),
        w \in SeqsUpTo(GatherGenericUrls, MaxRefs)}

Budgets == {1, 5, MaxBudget, DefaultBudget}

Caps == {1, 4, DefaultCap}

\* The run reaches gather_external_context with a client and with the
\* issue-tracker credentials set (run_pipeline built both clients before);
\* the model credential matters only when summarization is on
GatherEnvs ==
    {e \in [budget : Budgets, cap : Caps, summarize : BOOLEAN, api_key : BOOLEAN,
            jira_creds : {TRUE}, gh : {TRUE}] : e.summarize \/ e.api_key}

NoRaise == [exc |-> NoExc, msg |-> ""]

InitGather ==
    /\ env \in GatherEnvs
    /\ ctx \in {c \in GatherContexts :
                   Len(c.confluence_urls) + Len(c.github_pr_urls) + Len(c.generic_urls)
                       <= MaxRefs}
    /\ pc = ResolvePos(ctx, env.gh, "conf", 1).pc
    /\ k = ResolvePos(ctx, env.gh, "conf", 1).k
    /\ blocks = <<>>
    /\ summarized = <<>>
    /\ calls = <<>>
    /\ raised = NoRaise
    /\ desc = ""
    /\ reparsed = EmptyContext
    /\ reply = ""
    /\ patches = <<>>
    /\ files = <<>>
    /\ out = <<>>
    /\ snippets = <<>>
    /\ external_blocks = <<>>
    /\ prompts = <<>>
    /\ status = "running"
    /\ repo_url = ""
    /\ branch_name = ""

NextGather ==
    \/ FetchConfluence
    \/ FetchPr
    \/ FetchGeneric
    \/ Allocate
    \/ Summarize
    \/ FinalTrim

SpecGather == InitGather /\ [][NextGather]_vars

(***************************************************************************)
(* Properties of gather_external_context                                   *)
(***************************************************************************)
Returned == pc = "returned"

Raised == pc = "raised"

FetchOps == {"fetch_confluence_page", "fetch_github_pr_context", "fetch_generic_page"}

KindOf(op) ==
    CASE op = "fetch_confluence_page" -> "CONFLUENCE"
      [] op = "fetch_github_pr_context" -> "GITHUB_PR"
      [] op = "fetch_generic_page" -> "WEB"

\* every reference of the context, in the order the three loops visit them
References(c) ==
    [i \in 1..Len(c.confluence_urls) |-> <<"fetch_confluence_page", c.confluence_urls[i]>>]
        \o [i \in 1..Len(c.github_pr_urls) |->
                <<"fetch_github_pr_context", c.github_pr_urls[i]>>]
        \o [i \in 1..Len(c.generic_urls) |-> <<"fetch_generic_page", c.generic_urls[i]>>]

\* the 1-based index, within its kind, of the reference of the i-th call
IndexInKind(i) == Cardinality({j \in 1..i : calls[j].op = calls[i].op})

\* the blocks that belong to the reference of the i-th call
BlocksOf(i) ==
    {j \in 1..Len(blocks) :
        StartsWith(blocks[j].label,
                   KindOf(calls[i].op) \o "[" \o IntToStr(IndexInKind(i)) \o "]")}

SummaryCalls == {i \in 1..Len(calls) : calls[i].op = "call_gemini"}

Truncated(text) == Contains(text, "~")

\* C1: whenever gather_external_context returns a non-empty set of blocks,
\* the lengths of the returned texts sum to at most the total budget,
\* with summarization on or off and whatever the summarizer answered
C1_BudgetConservation ==
    (Returned /\ blocks # <<>>) => SumLen(blocks) <= env.budget

\* C1 happens: a return after summarization of at least two blocks, one
\* summary accepted at full length, and the final trim cutting a text
C1_Witness ==
    /\ Returned
    /\ env.summarize
    /\ Len(blocks) >= 2
    /\ \E i \in SummaryCalls : calls[i].ok
    /\ \E j \in 1..Len(blocks) : Truncated(blocks[j].text)
    /\ \E j \in 1..Len(blocks) : ~Truncated(summarized[j].text) /\ Truncated(blocks[j].text)

\* C2: when every call of the summarization capability fails, the function
\* still returns normally, with one entry per input block, every returned
\* text non-empty and the texts within the budget
C2_GracefulDegradation ==
    (/\ env.summarize
     /\ SummaryCalls # {}
     /\ \A i \in SummaryCalls : ~calls[i].ok)
        => /\ ~Raised
           /\ Returned =>
                  /\ Len(blocks) = Cardinality(SummaryCalls)
                  /\ \A j \in 1..Len(blocks) : blocks[j].text # ""
                  /\ SumLen(blocks) <= env.budget

\* C3: during the three fetch loops every failed fetch has left exactly one
\* block for its reference, labelled KIND[idx] ERROR with the text naming
\* the URL and the error; the references are fetched in order, all of them
\* by the end of the loops, and nothing has been raised
C3_FetchFailureIsolated ==
    pc \in {"conf", "pr", "web", "alloc"} =>
        /\ raised = NoRaise
        /\ Len(calls) <= Len(References(ctx))
        /\ \A i \in 1..Len(calls) : <<calls[i].op, calls[i].arg>> = References(ctx)[i]
        /\ pc = "alloc" => Len(calls) = Len(References(ctx))
        /\ \A i \in 1..Len(calls) :
               ~calls[i].ok =>
                   /\ Cardinality(BlocksOf(i)) = 1
                   /\ \A j \in BlocksOf(i) :
                          blocks[j] = Entry(ErrorLabel(KindOf(calls[i].op), IndexInKind(i)),
                                            "Failed to fetch " \o calls[i].arg \o ": "
                                                \o calls[i].err)

\* C3 happens: the loops are over, a fetch failed and a later one succeeded
C3_Witness ==
    /\ pc = "alloc"
    /\ \E i, j \in 1..Len(calls) : i < j /\ ~calls[i].ok /\ calls[j].ok
    /\ \E j \in 1..Len(blocks) : EndsWith(blocks[j].label, "] ERROR")

\* the summarization calls, in the order they were issued
SummarySeq == SelectSeq(calls, LAMBDA c : c.op = "call_gemini")

\* C21: whenever gather_external_context returns, every returned text is at
\* most totalBudget div blockCount characters long, whether summarization
\* was off, answered, answered with a text longer than asked, or failed
C21_FinalTrimWithinShare ==
    Returned => \A j \in 1..Len(blocks) : Len(blocks[j].text) <= env.budget \div Len(blocks)

\* C21 happens: three blocks returned with summarization off, all of them
\* cut to the share of four characters out of a budget of twelve
C21_Witness ==
    /\ Returned
    /\ ~env.summarize
    /\ Len(blocks) = 3
    /\ env.budget = MaxBudget
    /\ \A j \in 1..Len(blocks) : Len(blocks[j].text) <= 4
    /\ \E j \in 1..Len(blocks) : Truncated(blocks[j].text)

\* C22: every summarization call of a run was given the same limit,
\* min(max(totalBudget div blockCount, 500), configuredPerSourceCap) with
\* blockCount the number of resolved blocks, and every text the
\* summarization step returned for a block is at most that limit long
C22_OneLimitPerRun ==
    /\ \A i \in SummaryCalls :
           calls[i].char_limit = Min(Max(env.budget \div Len(blocks), 500), env.cap)
    /\ pc \in {"summ", "trim", "returned"} =>
           \A j \in 1..Len(summarized) :
               Len(summarized[j].text) <= Min(Max(env.budget \div Len(blocks), 500), env.cap)

\* C22 happens: two summarization calls under a cap below the floor, one
\* answered and one failed, and a summary cut to the limit
C22_Witness ==
    /\ pc = "trim"
    /\ env.cap < MinSummaryLimit
    /\ Len(SummarySeq) >= 2
    /\ \E i, j \in SummaryCalls : calls[i].ok /\ ~calls[j].ok
    /\ \E j \in 1..Len(summarized) : Len(summarized[j].text) = env.cap

\* C23: with the toggle off, or with no block resolved, the summarization
\* capability is never invoked; with the toggle on it has been invoked once
\* for every block, in block order, when the loop is over; and the final
\* trim is never entered with no blocks: the empty mapping is returned as is
C23_SummarizedOncePerBlock ==
    /\ (~env.summarize \/ blocks = <<>>) => SummaryCalls = {}
    /\ (env.summarize /\ pc \in {"trim", "returned"}) =>
           /\ Len(SummarySeq) = Len(blocks)
           /\ \A n \in 1..Len(blocks) : SummarySeq[n].arg = blocks[n].label
    /\ pc \in {"summ", "trim"} => blocks # <<>>
    /\ (Returned /\ blocks = <<>>) => raised = NoRaise /\ summarized = <<>>

\* C23 happens: a return after one summarization for each of three blocks
C23_Witness ==
    /\ Returned
    /\ env.summarize
    /\ Len(blocks) = 3
    /\ Len(SummarySeq) = 3

(***************************************************************************)
(* context_parsing.py: TicketContext                                       *)
(***************************************************************************)
\* str.replace('\\', '/')
RECURSIVE ReplaceBackslash(_)
ReplaceBackslash(s) ==
    IF s = "" THEN ""
    ELSE (IF CharAt(s, 1) = "\\" THEN "/" ELSE CharAt(s, 1)) \o ReplaceBackslash(DropFirst(s, 1))

\* the cleaning of one matched path
CleanPath(path) ==
    LET stripped == Strip(path)
    IN ReplaceBackslash(IF StartsWith(stripped, "./") THEN DropFirst(stripped, 2) ELSE stripped)

\* the documentation test of the first "if"
IsConfluenceUrl(u) ==
    \/ Contains(u, "atlassian.net/wiki")
    \/ Contains(u, "/wiki/spaces/")
    \/ Contains(u, "confluence")

\* an issue branch that was an "if" of its own
GoesToIssuesAsIf(u) == IsIssueUrl(u)

\* the branches of the if / elif / elif / else that follows it
GoesToPrs(u) == IsPrUrl(u)

GoesToIssues(u) == ~IsPrUrl(u) /\ IsIssueUrl(u)

GoesToCommits(u) == ~IsPrUrl(u) /\ ~IsIssueUrl(u) /\ IsCommitUrl(u)

GoesToGeneric(u) == ~IsPrUrl(u) /\ ~IsIssueUrl(u) /\ ~IsCommitUrl(u)

\* u.rstrip('.,;)')
Stored(u) == RStripChars(u, {".", ",", ";", ")"})

\* cleaned_paths.append(cleaned_path) for every path of all_paths
CleanedPaths(q) == [i \in 1..Len(q) |-> CleanPath(q[i])]

\* <list>.append(u.rstrip('.,;)')) for every url u that goes to the list
Appended(q) == [i \in 1..Len(q) |-> Stored(q[i])]

\* the lists and the residual text that _parse returns (lines 61-69)
Context(all_paths, all_urls, instructions) ==
    [file_paths |-> CleanedPaths(all_paths),
     confluence_urls |-> Appended(SelectSeq(all_urls, IsConfluenceUrl)),
     github_pr_urls |-> Appended(SelectSeq(all_urls, GoesToPrs)),
     github_issue_urls |-> Appended(SelectSeq(all_urls, GoesToIssues)),
     github_commit_urls |-> Appended(SelectSeq(all_urls, GoesToCommits)),
     generic_urls |-> Appended(SelectSeq(all_urls, GoesToGeneric)),
     instructions |-> instructions]

\* instructions = re.sub(file_regex, "", text);
\* instructions = re.sub(backtick_regex, "", instructions).strip()
Instructions(text) ==
    CHOOSE r \in {Strip(cut) : cut \in {ReSub("backtick", "", without)
                                          : without \in {ReSub("file", "", text)}}} : TRUE

\* TicketContext._parse(text)
Parse(text) ==
    CHOOSE c \in {Context(all_paths, all_urls, instructions) :
                     all_paths \in {FindAll("file", text) \o FindAll("backtick", text)},
                     all_urls \in {FindAll("url", text)},
                     instructions \in {Instructions(text)}} : TRUE

ParseFrame ==
    UNCHANGED <<env, desc, blocks, k, calls, summarized, raised, reply, patches, files, out,
                snippets, external_blocks, prompts, status,
                repo_url, branch_name>>

\* TicketContext(description)
ParseDescription ==
    /\ pc = "start"
    /\ \E c \in {Parse(desc)} : ctx' = c
    /\ pc' = "parsed"
    /\ UNCHANGED reparsed
    /\ ParseFrame

\* TicketContext(ctx.instructions): the parser applied to its own residual
ParseInstructions ==
    /\ pc = "parsed"
    /\ \E c \in {Parse(ctx.instructions)} : reparsed' = c
    /\ pc' = "reparsed"
    /\ UNCHANGED ctx
    /\ ParseFrame

(***************************************************************************)
(* The ticket texts: up to MaxPieces pieces written one after the other    *)
(***************************************************************************)
MaxPieces == 3

Pieces ==
    {"https://github.com/o/r/pull/1", "http://github.com/o/r/pull/2",
     "https://github.com/o/r/issues/3", "https://github.com/o/r/commit/abc1234",
     "https://w.atlassian.net/wiki/x", "https://e.com/a.", " ",
     "{{./s\\a.c", "^b.py^", "}}", "^.\\b.py^"}

Descriptions == {Join(p) : p \in SeqsUpTo(Pieces, MaxPieces)}

InitParse ==
    /\ desc \in Descriptions
    /\ pc = "start"
    /\ ctx = EmptyContext
    /\ reparsed = EmptyContext
    /\ env = [budget |-> DefaultBudget, cap |-> DefaultCap, summarize |-> TRUE,
              api_key |-> TRUE, jira_creds |-> TRUE, gh |-> TRUE]
    /\ k = 0
    /\ blocks = <<>>
    /\ summarized = <<>>
    /\ calls = <<>>
    /\ raised = NoRaise
    /\ reply = ""
    /\ patches = <<>>
    /\ files = <<>>
    /\ out = <<>>
    /\ snippets = <<>>
    /\ external_blocks = <<>>
    /\ prompts = <<>>
    /\ status = "running"
    /\ repo_url = ""
    /\ branch_name = ""

NextParse ==
    \/ ParseDescription
    \/ ParseInstructions

SpecParse == InitParse /\ [][NextParse]_vars

(***************************************************************************)
(* Properties of TicketContext                                             *)
(***************************************************************************)
Parsed == pc \in {"parsed", "reparsed"}

Mem(q, x) == \E i \in 1..Len(q) : q[i] = x

\* the URLs the parser found in the description
FoundUrls == {FindAll("url", desc)[i] : i \in 1..Len(FindAll("url", desc))}

\* github.com/<owner>/<repo>/pull/<digits> somewhere in u, under any scheme
HasPullPath(u) ==
    \E i \in 1..Len(u) : HostPatternAt("github.com/", u, i, "/pull/", Digits, 1).ok

\* C4 as stated: every found URL that contains github.com/<owner>/<repo>/pull/<digits>
\* is stored in the code-review list and in neither the issue list nor the
\* commit list
C4_PullPathGoesToCodeReview ==
    Parsed =>
        \A u \in FoundUrls :
            HasPullPath(u) =>
                /\ Mem(ctx.github_pr_urls, Stored(u))
                /\ ~Mem(ctx.github_issue_urls, Stored(u))
                /\ ~Mem(ctx.github_commit_urls, Stored(u))

\* C4 amended: every found URL that contains
\* https://github.com/<owner>/<repo>/pull/<digits> is stored in the code-review
\* list and in neither the issue list nor the commit list
C4_HttpsPullUrlGoesToCodeReview ==
    Parsed =>
        \A u \in FoundUrls :
            IsPrUrl(u) =>
                /\ Mem(ctx.github_pr_urls, Stored(u))
                /\ ~Mem(ctx.github_issue_urls, Stored(u))
                /\ ~Mem(ctx.github_commit_urls, Stored(u))

\* C4 happens: a found URL matches the pull-request pattern and the issue
\* pattern at once, and a pull-request URL was stored without its trailing dot
C4_Witness ==
    /\ Parsed
    /\ \E u \in FoundUrls :
           IsPrUrl(u) /\ IsIssueUrl(u) /\ Mem(ctx.github_pr_urls, Stored(u))
    /\ \E u \in FoundUrls : IsPrUrl(u) /\ Stored(u) # u /\ Mem(ctx.github_pr_urls, Stored(u))

\* C5: every found URL is stored in exactly the lists whose test it matches
\* (the three host patterns tested first match wins); in particular it is in
\* the generic list only if it matches neither the documentation marker nor
\* a host pattern
C5_ExactKinds ==
    Parsed =>
        \A u \in FoundUrls :
            /\ Mem(ctx.confluence_urls, Stored(u)) <=> IsConfluenceUrl(u)
            /\ Mem(ctx.github_pr_urls, Stored(u)) <=> IsPrUrl(u)
            /\ Mem(ctx.github_issue_urls, Stored(u)) <=> (~IsPrUrl(u) /\ IsIssueUrl(u))
            /\ Mem(ctx.github_commit_urls, Stored(u))
                   <=> (~IsPrUrl(u) /\ ~IsIssueUrl(u) /\ IsCommitUrl(u))
            /\ Mem(ctx.generic_urls, Stored(u))
                   <=> (/\ ~IsConfluenceUrl(u)
                        /\ ~IsPrUrl(u)
                        /\ ~IsIssueUrl(u)
                        /\ ~IsCommitUrl(u))

\* C6: parsing the residual instructions again finds no file path, in brace
\* form or in back-tick form, and no URL
C6_ExtractionIdempotent ==
    pc = "reparsed" =>
        /\ reparsed.file_paths = <<>>
        /\ reparsed.confluence_urls = <<>>
        /\ reparsed.github_pr_urls = <<>>
        /\ reparsed.github_issue_urls = <<>>
        /\ reparsed.github_commit_urls = <<>>
        /\ reparsed.generic_urls = <<>>

\* C6, the file paths alone: the residual instructions hold no file path
C6_NoResidualPath == pc = "reparsed" => reparsed.file_paths = <<>>

\* the path matches of the description: the brace matches, then the
\* back-tick matches
PathMatches == FindAll("file", desc) \o FindAll("backtick", desc)

\* a path with no leading "./", no backslash and no white space around it
Normalized(p) == ~StartsWith(p, "./") /\ ~Contains(p, "\\") /\ Strip(p) = p

\* C27: every stored file path is normalized, and normalizing it again
\* returns it unchanged; there is one stored path for every match, in the
\* order of the matches, duplicates kept
C27_StoredPathsNormalized ==
    Parsed =>
        /\ \A i \in 1..Len(ctx.file_paths) :
               /\ Normalized(ctx.file_paths[i])
               /\ CleanPath(ctx.file_paths[i]) = ctx.file_paths[i]
        /\ Len(ctx.file_paths) = Len(PathMatches)
        /\ \A i \in 1..Len(PathMatches) : ctx.file_paths[i] = CleanPath(PathMatches[i])

\* C27, the order and the duplicates alone
C27_OneStoredPathPerMatch ==
    Parsed =>
        /\ Len(ctx.file_paths) = Len(PathMatches)
        /\ \A i \in 1..Len(PathMatches) : ctx.file_paths[i] = CleanPath(PathMatches[i])

(***************************************************************************)
(* json.loads: the decoder of the standard library, on objects, arrays,    *)
(* strings (escapes \" \\ \/ \n \t), numbers and the literals              *)
(***************************************************************************)
JsonSpace == {" ", "\t", "\n", "\r"}

SkipWs(s, i) == i + RunLen(s, i, JsonSpace, FALSE)

\* a decoded value: t is its type, v the text of a scalar, items the elements
\* of a list or the key/value pairs of a dict
Val(t, v, items) == [t |-> t, v |-> v, items |-> items]

EmptyList == Val("arr", "", <<>>)

Bad == [ok |-> FALSE, val |-> Val("null", "", <<>>), next |-> 0]

Good(val, next) == [ok |-> TRUE, val |-> val, next |-> next]

Unescape(c) ==
    CASE c = "n" -> "\n"
      [] c = "t" -> "\t"
      [] OTHER -> c

\* the string whose opening quote was just before i; raw control characters
\* end the scan with an error
RECURSIVE ScanString(_, _, _)
ScanString(s, i, acc) ==
    LET n == RunLen(s, i, {"\"", "\\", "\n", "\t", "\r"}, TRUE)
        j == i + n
        c == CharAt(s, j)
        seen == acc \o Slice(s, i, j - 1)
    IN IF c = "\"" THEN Good(Val("str", seen, <<>>), j + 1)
       ELSE IF c = "\\" /\ CharAt(s, j + 1) \in {"\"", "\\", "/", "n", "t"}
            THEN ScanString(s, j + 2, seen \o Unescape(CharAt(s, j + 1)))
            ELSE Bad

\* the length of the match of (-?(?:0|[1-9]\d*))(\.\d+)?([eE][-+]?\d+)? at i
NumLen(s, i) ==
    LET a == IF CharAt(s, i) = "-" THEN i + 1 ELSE i
        int == IF CharAt(s, a) = "0" THEN 1 ELSE RunLen(s, a, Digits, FALSE)
        b == a + int
        frac == IF CharAt(s, b) = "." /\ RunLen(s, b + 1, Digits, FALSE) >= 1
                THEN 1 + RunLen(s, b + 1, Digits, FALSE)
                ELSE 0
        c == b + frac
        d == IF CharAt(s, c + 1) \in {"-", "+"} THEN c + 2 ELSE c + 1
        exp == IF CharAt(s, c) \in {"e", "E"} /\ RunLen(s, d, Digits, FALSE) >= 1
               THEN d - c + RunLen(s, d, Digits, FALSE)
               ELSE 0
    IN IF int = 0 THEN 0 ELSE c + exp - i

\* dict assignment while decoding: a repeated key keeps its place and takes
\* the later value
ObjPut(items, key, val) ==
    IF \E n \in 1..Len(items) : items[n].key = key
    THEN [n \in 1..Len(items) |->
              IF items[n].key = key THEN [key |-> key, val |-> val] ELSE items[n]]
    ELSE Append(items, [key |-> key, val |-> val])

\* the number of length n that starts at i, if n > 0
NumberAt(s, i, n) ==
    IF n > 0 THEN Good(Val("num", Slice(s, i, i + n - 1), <<>>), i + n)
    ELSE IF Slice(s, i, i + 2) = "NaN" THEN Good(Val("num", "NaN", <<>>), i + 3)
    ELSE IF Slice(s, i, i + 7) = "Infinity" THEN Good(Val("num", "Infinity", <<>>), i + 8)
    ELSE IF Slice(s, i, i + 8) = "-Infinity" THEN Good(Val("num", "-Infinity", <<>>), i + 9)
    ELSE Bad

\* a scalar that starts at i: a string, a literal or a number
ScanScalar(s, i) ==
    IF CharAt(s, i) = "\"" THEN ScanString(s, i + 1, "")
    ELSE IF Slice(s, i, i + 3) = "null" THEN Good(Val("null", "", <<>>), i + 4)
    ELSE IF Slice(s, i, i + 3) = "true" THEN Good(Val("bool", "true", <<>>), i + 4)
    ELSE IF Slice(s, i, i + 4) = "false" THEN Good(Val("bool", "false", <<>>), i + 5)
    ELSE NumberAt(s, i, NumLen(s, i))

\* the colon after the key and the start of the value
AfterKey(s, key, colon) ==
    IF key.ok /\ CharAt(s, colon) = ":" THEN Good(key.val, SkipWs(s, colon + 1)) ELSE Bad

KeyAndColon(s, key) == AfterKey(s, key, SkipWs(s, key.next))

\* the key of a dict whose opening quote is at i, and its colon: val is the
\* key, next the start of the value
ScanKey(s, i) == IF CharAt(s, i) = "\"" THEN KeyAndColon(s, ScanString(s, i + 1, "")) ELSE Bad

\* a container being decoded: the items so far and, for a dict, the key
\* whose value is being read
Frame(t, items, key) == [t |-> t, items |-> items, key |-> key]

Push(stack, f) == Append(stack, f)

Pop(stack) == SubSeq(stack, 1, Len(stack) - 1)

Top(stack) == stack[Len(stack)]

\* the items of the innermost container once the value v is added to them
Added(stack, v) ==
    IF Top(stack).t = "arr" THEN Append(Top(stack).items, v)
    ELSE ObjPut(Top(stack).items, Top(stack).key, v)

\* the decoder at position i with the open containers on the stack: when
\* ~done a value is expected at i, when done the value v ended just before i
Conf(i, stack, done, v) ==
    [halt |-> FALSE, ok |-> TRUE, i |-> i, stack |-> stack, done |-> done, v |-> v]

Halt(ok, v, i) == [halt |-> TRUE, ok |-> ok, i |-> i, stack |-> <<>>, done |-> TRUE, v |-> v]

Failed == Halt(FALSE, EmptyList, 0)

\* a dict is entered (or goes on) with the key read
EnterKey(stack, items, key) ==
    IF key.ok THEN Conf(key.next, Push(stack, Frame("obj", items, key.val.v)), FALSE, EmptyList)
    ELSE Failed

TakeScalar(stack, r) == IF r.ok THEN Conf(r.next, stack, TRUE, r.val) ELSE Failed

\* a value is expected at c.i; j is the first position after c.i that holds
\* no white space
Shift(s, c, j) ==
    IF CharAt(s, c.i) = "{"
    THEN IF CharAt(s, j) = "}" THEN Conf(j + 1, c.stack, TRUE, Val("obj", "", <<>>))
         ELSE EnterKey(c.stack, <<>>, ScanKey(s, j))
    ELSE IF CharAt(s, c.i) = "["
         THEN IF CharAt(s, j) = "]" THEN Conf(j + 1, c.stack, TRUE, EmptyList)
              ELSE Conf(j, Push(c.stack, Frame("arr", <<>>, "")), FALSE, EmptyList)
         ELSE TakeScalar(c.stack, ScanScalar(s, c.i))

\* the value c.v ended before c.i inside a container; j is the first
\* position from c.i on that holds no white space
Reduce(s, c, j) ==
    IF CharAt(s, j) = (IF Top(c.stack).t = "arr" THEN "]" ELSE "}")
    THEN Conf(j + 1, Pop(c.stack), TRUE, Val(Top(c.stack).t, "", Added(c.stack, c.v)))
    ELSE IF CharAt(s, j) # "," THEN Failed
         ELSE IF Top(c.stack).t = "arr"
              THEN Conf(SkipWs(s, j + 1),
                        Push(Pop(c.stack), Frame("arr", Added(c.stack, c.v), "")),
                        FALSE, EmptyList)
              ELSE EnterKey(Pop(c.stack), Added(c.stack, c.v), ScanKey(s, SkipWs(s, j + 1)))

Step(s, c) ==
    IF ~c.done THEN Shift(s, c, SkipWs(s, c.i + 1))
    ELSE IF c.stack = <<>> THEN Halt(TRUE, c.v, c.i)
         ELSE Reduce(s, c, SkipWs(s, c.i))

\* scan_once(s, i), run to the end of the value or to the error
RECURSIVE ScanOnce(_, _)
ScanOnce(s, c) == IF c.halt THEN c ELSE ScanOnce(s, Step(s, c))

\* end = _w(s, end).end(); if end != len(s): raise
WholeText(s, r) ==
    IF r.ok /\ SkipWs(s, r.i) = Len(s) + 1 THEN Ok(r.v) ELSE Exc("JSONDecodeError", "")

\* json.loads(s)
JsonLoads(s) == WholeText(s, ScanOnce(s, Conf(SkipWs(s, 1), <<>>, FALSE, EmptyList)))

HasKey(obj, key) == \E n \in 1..Len(obj.items) : obj.items[n].key = key

Lookup(obj, key) == obj.items[CHOOSE n \in 1..Len(obj.items) : obj.items[n].key = key].val

\* a lookup that insisted on the key
GetOrRaise(d, key, default) ==
    IF d.t # "obj" THEN Exc("AttributeError", "get")
    ELSE IF HasKey(d, key) THEN Ok(Lookup(d, key)) ELSE Exc("KeyError", key)

\* d.get(key, default)
Get(d, key, default) ==
    IF d.t # "obj" THEN Exc("AttributeError", "get")
    ELSE Ok(IF HasKey(d, key) THEN Lookup(d, key) ELSE default)

\* iteration over a decoded value: the elements of a list, the characters
\* of a string, the keys of a dict
Iter(p) ==
    CASE p.t = "arr" -> p.items
      [] p.t = "str" -> [n \in 1..Len(p.v) |-> Val("str", CharAt(p.v, n), <<>>)]
      [] p.t = "obj" -> [n \in 1..Len(p.items) |-> Val("str", p.items[n].key, <<>>)]
      [] OTHER -> <<>>

\* len(p)
PyLen(p) ==
    IF p.t \in {"arr", "str", "obj"} THEN Ok(Len(Iter(p))) ELSE Exc("TypeError", "len")

(***************************************************************************)
(* pipeline.py: the response parsing of generate_changes_with_ai           *)
(***************************************************************************)
\* the fenced-code marker, three back-ticks
Fence == Backtick \o Backtick \o Backtick

PreviewChars == 300

\* an opening cleanup that knew the bare marker only
StripBareOpeningFence(t) == IF StartsWith(t, Fence) THEN DropFirst(t, 3) ELSE t

\* if startswith(marker + 'json') ... elif startswith(marker) ...
StripOpeningFence(t) ==
    IF StartsWith(t, Fence \o "json") THEN DropFirst(t, 7)
    ELSE IF StartsWith(t, Fence) THEN DropFirst(t, 3) ELSE t

\* if endswith(marker) ...
StripClosingFence(t) == IF EndsWith(t, Fence) THEN DropLast(t, 3) ELSE t

\* cleaned_text
Clean(json_text) == Strip(StripClosingFence(StripOpeningFence(Strip(json_text))))

\* .get("patches", []) on the decoded document d
GetPatches(d) == IF d.exc = NoExc THEN Get(d.val, "patches", EmptyList) ELSE d

\* len(patches) of the log line
CheckLen(p, n) == IF n.exc = NoExc THEN p ELSE n

LenChecked(p) == IF p.exc = NoExc THEN CheckLen(p, PyLen(p.val)) ELSE p

\* json.loads(cleaned_text).get("patches", []) and the len() of the log line
DecodePatches(cleaned) == LenChecked(GetPatches(JsonLoads(cleaned)))

MalformedJson == [exc |-> "ValueError", msg |-> "Malformed JSON from Gemini"]

\* an except branch that fell back to no edits
ReturnEmptyOnDecodeFailure(json_text, cleaned) ==
    [exc |-> NoExc, msg |-> "", val |-> EmptyList, prints |-> <<>>]

\* the except branch: the two previews are printed, then the error is raised
OnDecodeFailure(json_text, cleaned) ==
    [exc |-> MalformedJson.exc, msg |-> MalformedJson.msg, val |-> EmptyList,
     prints |-> <<"Raw response: " \o TakeFirst(json_text, PreviewChars) \o "...",
                  "Cleaned response: " \o TakeFirst(cleaned, PreviewChars) \o "...">>]

\* the return of the try block, or its except branch
Outcome(json_text, cleaned, p) ==
    IF p.exc = NoExc
    THEN [exc |-> NoExc, msg |-> "", val |-> p.val,
          prints |-> <<"Parsed " \o IntToStr(Len(Iter(p.val))) \o " file patch(es)">>]
    ELSE OnDecodeFailure(json_text, cleaned)

Decoded(json_text, cleaned) == Outcome(json_text, cleaned, DecodePatches(cleaned))

\* lines 142-158: the value returned or the error raised, and what is printed
ParseResponse(json_text) == Decoded(json_text, Clean(json_text))

(***************************************************************************)
(* pipeline.py: apply_patches, and the rest of run_pipeline                *)
(***************************************************************************)
\* the checkout root: the directory repo of the temporary directory
RepoPath == "/tmp/ai_pr_0/repo"

\* repo_path / file_path: an absolute file_path replaces the root
JoinPath(root, file_path) ==
    IF StartsWith(file_path, "/") THEN file_path ELSE root \o "/" \o file_path

\* one turn of the loop of apply_patches on the element fc: the file written,
\* or the error of fc["path"], fc["content"], repo_path / file_path, write_text
WriteOf(fc) ==
    IF fc.t # "obj" THEN Exc("TypeError", "indices")
    ELSE IF ~HasKey(fc, "path") THEN Exc("KeyError", "path")
    ELSE IF ~HasKey(fc, "content") THEN Exc("KeyError", "content")
    ELSE IF Lookup(fc, "path").t # "str" \/ Lookup(fc, "content").t # "str"
         THEN Exc("TypeError", "str")
         ELSE Ok([path |-> Lookup(fc, "path").v, content |-> Lookup(fc, "content").v,
                  dst |-> JoinPath(RepoPath, Lookup(fc, "path").v)])

\* where the run stands when the loop of apply_patches is at element i
ApplyPos(p, i) == IF i <= Len(Iter(p)) THEN "apply" ELSE "commit"

RunFrame ==
    UNCHANGED <<env, desc, ctx, reparsed, blocks, summarized, snippets, external_blocks,
                prompts, status,
                repo_url, branch_name>>

\* json_text = call_gemini(prompt)
Generate ==
    /\ pc = "generate"
    /\ \E g \in call_gemini(env, env.answers) :
           /\ calls' = Append(calls, Call("call_gemini", "prompt", g))
           /\ IF g.exc = NoExc
              THEN /\ reply' = g.val
                   /\ pc' = "parse"
                   /\ UNCHANGED raised
              ELSE /\ raised' = [exc |-> g.exc, msg |-> g.msg]
                   /\ pc' = "failed"
                   /\ UNCHANGED reply
    /\ UNCHANGED <<k, patches, files, out>>
    /\ RunFrame

\* the response parsing, up to the return or the raise
ParseReply ==
    /\ pc = "parse"
    /\ \E r \in {ParseResponse(reply)} :
          /\ out' = out \o r.prints
          /\ IF r.exc = NoExc
             THEN /\ patches' = r.val
                  /\ pc' = ApplyPos(r.val, 1)
                  /\ k' = 1
                  /\ UNCHANGED raised
             ELSE /\ raised' = [exc |-> r.exc, msg |-> r.msg]
                  /\ pc' = "failed"
                  /\ UNCHANGED <<patches, k>>
    /\ UNCHANGED <<reply, calls, files>>
    /\ RunFrame

\* one turn of the loop of apply_patches
ApplyPatch ==
    /\ pc = "apply"
    /\ \E w \in {WriteOf(Iter(patches)[k])} :
          IF w.exc = NoExc
          THEN /\ files' = Append(files, w.val)
               /\ k' = k + 1
               /\ pc' = ApplyPos(patches, k + 1)
               /\ UNCHANGED raised
          ELSE /\ raised' = [exc |-> w.exc, msg |-> w.msg]
               /\ pc' = "failed"
               /\ UNCHANGED <<files, k>>
    /\ UNCHANGED <<reply, calls, patches, out>>
    /\ RunFrame

\* parts = repo_url.rstrip(".git").split("/")[-2:];
\* repo_full_name = "/".join(parts)
RepoFullName(url) ==
    LET parts == SegmentsFrom(RStripChars(url, {".", "g", "i", "t"}), 1)
    IN JoinWith("/", SubSeq(parts, Max(1, Len(parts) - 1), Len(parts)))

\* a commit_push that returned normally after a failed push
CommitPushIgnoringPush ==
    /\ pc = "commit"
    /\ \E committed \in (IF files = <<>> THEN {FALSE} ELSE BOOLEAN), pushed \in BOOLEAN :
           LET c == Call("git commit", "", IF committed THEN Ok("") ELSE Exc("CalledProcessError", "1"))
               p == Call("git push", branch_name, IF pushed THEN Ok("") ELSE Exc("CalledProcessError", "1"))
           IN IF ~committed
              THEN /\ calls' = Append(calls, c)
                   /\ raised' = [exc |-> "SystemExit", msg |-> "0"]
                   /\ pc' = "exited"
              ELSE /\ calls' = calls \o <<c, p>>
                   /\ raised' = raised
                   /\ pc' = "pull_request"
    /\ UNCHANGED <<reply, patches, files, k, out>>
    /\ RunFrame

\* what "git commit" can answer: it fails when nothing was written, and it
\* may fail when the files written equal the files of the checkout
CommitResults == IF files = <<>> THEN {FALSE} ELSE BOOLEAN

\* commit_push: a failed commit ends the process with status 0, a failed
\* push raises
CommitPush ==
    /\ pc = "commit"
    /\ \E committed \in CommitResults, pushed \in BOOLEAN :
           LET c == Call("git commit", "", IF committed THEN Ok("") ELSE Exc("CalledProcessError", "1"))
               p == Call("git push", branch_name, IF pushed THEN Ok("") ELSE Exc("CalledProcessError", "1"))
           IN IF ~committed
              THEN /\ calls' = Append(calls, c)
                   /\ raised' = [exc |-> "SystemExit", msg |-> "0"]
                   /\ pc' = "exited"
              ELSE /\ calls' = calls \o <<c, p>>
                   /\ raised' = IF pushed THEN raised
                                ELSE [exc |-> "CalledProcessError", msg |-> "1"]
                   /\ pc' = IF pushed THEN "pull_request" ELSE "failed"
    /\ UNCHANGED <<reply, patches, files, k, out>>
    /\ RunFrame

\* create_pull_request(gh, repo_full_name=..., branch=branch_name, ...)
CreatePullRequest ==
    /\ pc = "pull_request"
    /\ \E created \in BOOLEAN :
           /\ calls' = Append(calls, Call("create_pull", RepoFullName(repo_url),
                                          IF created THEN Ok("") ELSE Exc("GithubException", "422"))
                                         @@ [head |-> branch_name])
           /\ raised' = IF created THEN raised ELSE [exc |-> "GithubException", msg |-> "422"]
           /\ pc' = IF created THEN "done" ELSE "failed"
    /\ UNCHANGED <<reply, patches, files, k, out>>
    /\ RunFrame

(***************************************************************************)
(* The replies of the model: a document, bare or wrapped                   *)
(***************************************************************************)
Documents ==
    {"{\"patches\":[{\"path\":\"a.py\",\"content\":\"x\"}]}",
     "{ \"patches\" : [ {\"path\": \"d/a.py\", \"content\": \"x\\ny\"},\n {\"content\": \"\", \"path\": \"b.py\"} ] }",
     "{\"patches\":[]}",
     "{\"note\":\"n\"}",
     "{}",
     "{\"patches\":[{\"path\":\"a.py\",\"content\":\"x\"},{\"path\":\"b.py\"}]}",
     "{\"patches\":\"ab\"}",
     "{\"patches\":{\"path\":\"a.py\",\"content\":\"x\"}}",
     "{\"patches\":5}",
     "{\"patches\":null}",
     "[{\"path\":\"a.py\",\"content\":\"x\"}]",
     "{\"patches\":[{\"path\":\"d/../../../x.py\",\"content\":\"x\"}]}",
     "{\"patches\":[{\"path\":\"/etc/x.py\",\"content\":\"x\"}]}",
     "{\"patches\":[{\"path\":\"a.py\",\"content\":\"x\"}]",
     "Here are the patches"}

Wrappers == {"none", "json", "bare", "python", "padded", "unclosed"}

Wrap(w, d) ==
    CASE w = "none" -> d
      [] w = "json" -> Fence \o "json\n" \o d \o "\n" \o Fence
      [] w = "bare" -> Fence \o "\n" \o d \o "\n" \o Fence
      [] w = "python" -> Fence \o "python\n" \o d \o "\n" \o Fence
      [] w = "padded" -> " \n" \o Fence \o "json" \o d \o Fence \o "\n\t "
      [] w = "unclosed" -> Fence \o "json\n" \o d

Filler == "0123456789012345678901234567890123456789012345678901234567890123"

\* a reply longer than the previews
LongReply == Fence \o "I cannot" \o Filler \o Filler \o Filler \o Filler \o Filler \o Fence

Answers == {Wrap(w, d) : w \in Wrappers, d \in Documents} \cup {LongReply}

\* the run reaches the generation call with a repository cloned and a
\* branch created
InitRun ==
    /\ pc = "generate"
    /\ env \in [budget : {DefaultBudget}, cap : {DefaultCap}, summarize : {TRUE},
                api_key : BOOLEAN, jira_creds : {TRUE}, gh : {TRUE}, answers : {Answers}]
    /\ desc = ""
    /\ ctx = EmptyContext
    /\ reparsed = EmptyContext
    /\ blocks = <<>>
    /\ summarized = <<>>
    /\ k = 0
    /\ calls = <<>>
    /\ raised = NoRaise
    /\ reply = ""
    /\ patches = EmptyList
    /\ files = <<>>
    /\ out = <<>>
    /\ snippets = <<>>
    /\ external_blocks = <<>>
    /\ prompts = <<>>
    /\ status = "running"
    /\ repo_url = "https://github.com/o/r.git"
    /\ branch_name = "ai/eng-1"

NextRun ==
    \/ Generate
    \/ ParseReply
    \/ ApplyPatch
    \/ CommitPush
    \/ CreatePullRequest

SpecRun == InitRun /\ [][NextRun]_vars

(***************************************************************************)
(* Properties of the response parsing and of the run after it              *)
(***************************************************************************)
\* the generation call returned a reply
Generated == calls # <<>> /\ calls[1].ok

\* the response parsing is over, by a return or by a raise
ParsePassed == Generated /\ pc \notin {"generate", "parse"}

ParseFailed == ParsePassed /\ raised = MalformedJson

\* a list of edits, each an object with a string path and a string content
WellTyped(p) ==
    /\ p.t = "arr"
    /\ \A n \in 1..Len(p.items) :
           /\ p.items[n].t = "obj"
           /\ HasKey(p.items[n], "path") /\ Lookup(p.items[n], "path").t = "str"
           /\ HasKey(p.items[n], "content") /\ Lookup(p.items[n], "content").t = "str"

\* the documents that decode to a well-typed list of edits
ValidDocuments ==
    {d \in Documents : ParseResponse(d).exc = NoExc /\ WellTyped(ParseResponse(d).val)}

\* a fenced block: opening marker, closing marker, any surrounding white space
AnyTagFences == {"json", "bare", "python", "padded"}

JsonOrBareFences == {"json", "bare", "padded"}

\* the external effects after the patches: commit, push, pull request
SideEffects == {i \in 1..Len(calls) : calls[i].op \in {"git commit", "git push", "create_pull"}}

\* C7 as stated: for every valid document, the parser returns for the
\* document in a fenced block, whatever the language tag of the opening
\* marker, the edits it returns for the document alone
C7_FenceRoundTripAnyTag ==
    ParsePassed =>
        \A d \in ValidDocuments, w \in AnyTagFences :
            reply = Strip(Wrap(w, d)) => ~ParseFailed /\ patches = ParseResponse(d).val

\* C7 amended: for every valid document, the parser returns for the document
\* in a fenced block whose opening marker is bare or carries the tag json
\* the edits it returns for the document alone
C7_FenceRoundTripJsonTag ==
    ParsePassed =>
        \A d \in ValidDocuments, w \in JsonOrBareFences :
            reply = Strip(Wrap(w, d)) => ~ParseFailed /\ patches = ParseResponse(d).val

\* C7 happens: a fenced valid document of two edits was parsed and both
\* files were written
C7_Witness ==
    /\ ParsePassed
    /\ \E d \in ValidDocuments, w \in JsonOrBareFences : reply = Strip(Wrap(w, d)) /\ reply # d
    /\ Len(patches.items) = 2
    /\ Len(files) = 2

\* the cleaned reply decodes to an object that has no "patches" field
NoPatchesField(text) ==
    /\ JsonLoads(Clean(text)).exc = NoExc
    /\ JsonLoads(Clean(text)).val.t = "obj"
    /\ ~HasKey(JsonLoads(Clean(text)).val, "patches")

\* C8: when the cleaned reply decodes to an object without a "patches"
\* field, the parser raises nothing and returns the empty list, and the run
\* goes on to the commit with no file written
C8_MissingPatchesIsEmpty ==
    (ParsePassed /\ NoPatchesField(reply)) =>
        /\ ~ParseFailed
        /\ patches = EmptyList
        /\ files = <<>>
        /\ pc \in {"commit", "exited"}

\* C8 happens: a fenced object without the field was parsed, zero patches
\* were reported and the run stands at the commit
C8_Witness ==
    /\ pc = "commit"
    /\ NoPatchesField(reply)
    /\ StartsWith(reply, Fence)
    /\ out = <<"Parsed 0 file patch(es)">>

\* the try block of the parser raises on this reply
DecodeError(text) == DecodePatches(Clean(text)).exc # NoExc

\* C9: when decoding the reply fails, the parser raises the error
\* "Malformed JSON from Gemini" after printing previews of at most
\* PreviewChars characters of the raw and of the cleaned text; the run ends
\* there: no file is written, nothing is committed or pushed, no pull
\* request is created
C9_DecodeErrorIsFatal ==
    (ParsePassed /\ DecodeError(reply)) =>
        /\ pc = "failed"
        /\ raised = MalformedJson
        /\ out = <<"Raw response: " \o TakeFirst(reply, PreviewChars) \o "...",
                   "Cleaned response: " \o TakeFirst(Clean(reply), PreviewChars) \o "...">>
        /\ \A n \in 1..Len(out) : Len(out[n]) <= PreviewChars + Len("Cleaned response: ...")
        /\ files = <<>>
        /\ SideEffects = {}

\* C9 happens: the parser failed on a reply longer than the previews, whose
\* cleaned text differs from the raw text
C9_Witness ==
    /\ ParseFailed
    /\ Len(reply) > PreviewChars
    /\ Clean(reply) # reply
    /\ Len(out[1]) < Len(reply)

\* C10: a reply on which the parser returns normally yields a list of edits
\* each with a path and a content, and a reply of another shape is rejected
\* by the decode error before any file is written
C10_TypedEditsOrRejected ==
    ParsePassed =>
        /\ ~ParseFailed => WellTyped(patches)
        /\ ~WellTyped(patches) => files = <<>>

(***************************************************************************)
(* jira_client.py get_related_links, and the merge of the related links    *)
(* into the ticket context (pipeline.py generate_changes_with_ai)          *)
(***************************************************************************)
\* "Deduplicate and strip trailing common punctuation": the cleaned urls in
\* first-seen order
RECURSIVE Deduplicate(_, _)
Deduplicate(urls, clean) ==
    IF urls = <<>> THEN clean
    ELSE Deduplicate(Tail(urls),
                     IF Mem(clean, Stored(Head(urls))) THEN clean
                     ELSE Append(clean, Stored(Head(urls))))

\* get_related_links(jira, issue), given what jira.remote_links answers: a
\* failed lookup counts as no links, a link without a url ("") is left out
get_related_links(remote) ==
    Deduplicate(SelectSeq(IF remote.ok THEN remote.links ELSE <<>>, LAMBDA u : u # ""), <<>>)

\* related_urls of generate_changes_with_ai: the empty list when building
\* the client or the lookup raised
RelatedUrls(e) == IF e.jira_creds THEN get_related_links(e.remote) ELSE <<>>

\* the membership test of the merge that looked at the generic list only
KnownAsGeneric(c, u) == Mem(c.generic_urls, u)

\* the membership test of the merge, across the five lists
Known(c, u) ==
    \/ Mem(c.confluence_urls, u)
    \/ Mem(c.github_pr_urls, u)
    \/ Mem(c.github_issue_urls, u)
    \/ Mem(c.github_commit_urls, u)
    \/ Mem(c.generic_urls, u)

\* the "naive classification": the list a related url is appended to
Classified(c, u) ==
    IF IsConfluenceUrl(u) THEN [c EXCEPT !.confluence_urls = Append(@, u)]
    ELSE IF IsPrUrl(u) THEN [c EXCEPT !.github_pr_urls = Append(@, u)]
    ELSE IF IsIssueUrl(u) THEN [c EXCEPT !.github_issue_urls = Append(@, u)]
    ELSE IF IsCommitUrl(u) THEN [c EXCEPT !.github_commit_urls = Append(@, u)]
    ELSE [c EXCEPT !.generic_urls = Append(@, u)]

\* one turn of the loop over related_urls
Merged(c, u) == IF Known(c, u) THEN c ELSE Classified(c, u)

\* where the flow stands when the merge loop is at element i
MergePos(e, i) == IF i <= Len(RelatedUrls(e)) THEN "merge" ELSE "merged"

MergeFrame ==
    UNCHANGED <<env, desc, reparsed, blocks, calls, summarized, raised, reply, patches, files,
                out, snippets, external_blocks, prompts, status,
                repo_url, branch_name>>

\* ctx = TicketContext(issue.fields.description or ""), and the lookup of the
\* related links
BuildContext ==
    /\ pc = "context"
    /\ \E c \in {Parse(desc)} : ctx' = c
    /\ pc' = MergePos(env, 1)
    /\ k' = 1
    /\ MergeFrame

\* for u in related_urls: ...
MergeLink ==
    /\ pc = "merge"
    /\ \E u \in {RelatedUrls(env)[k]} : ctx' = Merged(ctx, u)
    /\ k' = k + 1
    /\ pc' = MergePos(env, k + 1)
    /\ MergeFrame

(***************************************************************************)
(* The tickets and the remote links of the merge                           *)
(***************************************************************************)
MaxLinks == 3

MergeDescriptions ==
    {"", "see https://github.com/o/r/pull/1, https://e.com/a. and https://w.atlassian.net/wiki/x"}

LinkUrls ==
    {"https://github.com/o/r/pull/1", "https://e.com/a)", "https://github.com/o/r/issues/3",
     "https://github.com/o/r/commit/abc1234", "https://w/confluence",
     "http://github.com/o/r/pull/2", ""}

Remotes ==
    {[ok |-> TRUE, links |-> l] : l \in SeqsUpTo(LinkUrls, MaxLinks)}
        \cup {[ok |-> FALSE, links |-> <<>>]}

InitMerge ==
    /\ pc = "context"
    /\ desc \in MergeDescriptions
    /\ env \in [budget : {DefaultBudget}, cap : {DefaultCap}, summarize : {TRUE},
                api_key : {TRUE}, jira_creds : {TRUE}, gh : {TRUE}, remote : Remotes]
    /\ ctx = EmptyContext
    /\ reparsed = EmptyContext
    /\ k = 0
    /\ blocks = <<>>
    /\ summarized = <<>>
    /\ calls = <<>>
    /\ raised = NoRaise
    /\ reply = ""
    /\ patches = <<>>
    /\ files = <<>>
    /\ out = <<>>
    /\ snippets = <<>>
    /\ external_blocks = <<>>
    /\ prompts = <<>>
    /\ status = "running"
    /\ repo_url = ""
    /\ branch_name = ""

NextMerge ==
    \/ BuildContext
    \/ MergeLink

SpecMerge == InitMerge /\ [][NextMerge]_vars

(***************************************************************************)
(* Properties of the merge                                                 *)
(***************************************************************************)
KindLists ==
    {"confluence_urls", "github_pr_urls", "github_issue_urls", "github_commit_urls",
     "generic_urls"}

\* how many times u stands in the list q
Count(q, u) == Cardinality({i \in 1..Len(q) : q[i] = u})

\* how many times u stands in the five lists of c together
CountAll(c, u) ==
    Count(c.confluence_urls, u) + Count(c.github_pr_urls, u) + Count(c.github_issue_urls, u)
        + Count(c.github_commit_urls, u) + Count(c.generic_urls, u)

\* q extends p at the end
Extends(q, p) == Len(q) >= Len(p) /\ SubSeq(q, 1, Len(p)) = p

\* the related links that the ticket text did not hold already
NewLinks(c, related) == {i \in 1..Len(related) : ~Known(c, related[i])}

\* C11: when the merge is over, every related url that one of the five lists
\* of the parsed ticket held already has been appended to no list, every
\* other related url stands exactly once in the five lists together, and
\* the lists have grown by these urls only
C11_RelatedLinksMergedOnce ==
    pc = "merged" =>
        \E before \in {Parse(desc)}, related \in {RelatedUrls(env)} :
            /\ \A f \in KindLists : Extends(ctx[f], before[f])
            /\ \A i \in 1..Len(related) :
                   IF Known(before, related[i])
                   THEN \A f \in KindLists : Count(ctx[f], related[i]) = Count(before[f], related[i])
                   ELSE CountAll(ctx, related[i]) = 1
            /\ Len(ctx.confluence_urls) + Len(ctx.github_pr_urls) + Len(ctx.github_issue_urls)
                   + Len(ctx.github_commit_urls) + Len(ctx.generic_urls)
                 = Len(before.confluence_urls) + Len(before.github_pr_urls)
                   + Len(before.github_issue_urls) + Len(before.github_commit_urls)
                   + Len(before.generic_urls) + Cardinality(NewLinks(before, related))
            /\ ctx.file_paths = before.file_paths /\ ctx.instructions = before.instructions

\* C11 happens: the merge is over, one related url was in a list of the
\* ticket already and was skipped, another one was appended
C11_Witness ==
    /\ pc = "merged"
    /\ \E i, j \in 1..Len(RelatedUrls(env)) :
           /\ Known(Parse(desc), RelatedUrls(env)[i])
           /\ ~Known(Parse(desc), RelatedUrls(env)[j])
           /\ CountAll(ctx, RelatedUrls(env)[i]) = 1
           /\ CountAll(ctx, RelatedUrls(env)[j]) = 1

\* the kind lists of c that hold u
KindsOf(c, u) == {f \in KindLists : Mem(c[f], u)}

\* C26: when the merge is over, every related url that the ticket text did
\* not hold stands in exactly the kind lists in which TicketContext stores
\* it when it is the ticket text, a url that matches the documentation
\* marker and a pull-request, issue or commit pattern included
C26_RelatedLinksClassifiedAsParsed ==
    pc = "merged" =>
        \E before \in {Parse(desc)}, related \in {RelatedUrls(env)} :
            \A i \in NewLinks(before, related) :
                KindsOf(ctx, related[i]) = KindsOf(Parse(related[i]), related[i])

\* C26, the urls without a documentation marker: they stand in the same
\* kind list by both rules
C26_SameKindWithoutMarker ==
    pc = "merged" =>
        \E before \in {Parse(desc)}, related \in {RelatedUrls(env)} :
            \A i \in NewLinks(before, related) :
                ~IsConfluenceUrl(related[i]) =>
                    KindsOf(ctx, related[i]) = KindsOf(Parse(related[i]), related[i])

(***************************************************************************)
(* repo_context.py: gather_candidate_files                                 *)
(***************************************************************************)
\* m[label]
TextOf(m, label) == m[CHOOSE i \in 1..Len(m) : m[i].label = label].text

\* per_file_budget
PerFileShare(budget, hinted_paths) == Max(budget \div Max(Len(hinted_paths), 1), 1)

\* where the flow stands when the loop over hinted_paths is at element i:
\* after the loop comes gather_external_context
FilesPos(c, e, i) ==
    IF i <= Len(c.file_paths) THEN [pc |-> "files", k |-> i]
    ELSE ResolvePos(c, e.gh, "conf", 1)

FilesFrame ==
    UNCHANGED <<env, desc, ctx, reparsed, blocks, calls, summarized, reply, patches, files,
                out, external_blocks, prompts, status,
                repo_url, branch_name>>

\* one turn of the loop: a path that does not exist is skipped, the content
\* of one that exists is shortened to the share and stored under the path
GatherFile ==
    /\ pc = "files"
    /\ \E rel \in {ctx.file_paths[k]}, nxt \in {FilesPos(ctx, env, k + 1)} :
          IF ~HasLabel(env.checkout, rel)
          THEN /\ pc' = nxt.pc
               /\ k' = nxt.k
               /\ UNCHANGED <<snippets, raised>>
          ELSE \E t \in {Shorten(TextOf(env.checkout, rel),
                                 PerFileShare(env.prompt_budget, ctx.file_paths))} :
                  IF t.exc # NoExc
                  THEN /\ raised' = [exc |-> t.exc, msg |-> t.msg]
                       /\ pc' = "raised"
                       /\ UNCHANGED <<snippets, k>>
                  ELSE /\ snippets' = Put(snippets, rel, t.val)
                       /\ pc' = nxt.pc
                       /\ k' = nxt.k
                       /\ UNCHANGED raised
    /\ FilesFrame

(***************************************************************************)
(* The checkouts, the requested paths and the budgets                      *)
(***************************************************************************)
MaxPaths == 3

DefaultPromptBudget == 6000

Checkout ==
    <<Entry("a.py", "x = 1\ny = 2\n"), Entry("b.py", ""),
      Entry("d/c.py", "alpha beta gamma delta")>>

HintedPaths == {"a.py", "b.py", "d/c.py", "new.py"}

PromptBudgets == {1, 2, 8, 30, DefaultPromptBudget}

InitFiles ==
    /\ env \in [budget : {DefaultBudget}, cap : {DefaultCap}, summarize : {TRUE},
                api_key : {TRUE}, jira_creds : {TRUE}, gh : {TRUE},
                prompt_budget : PromptBudgets, checkout : {Checkout}]
    /\ ctx \in {[EmptyContext EXCEPT !.file_paths = q] : q \in SeqsUpTo(HintedPaths, MaxPaths)}
    /\ pc = FilesPos(ctx, env, 1).pc
    /\ k = FilesPos(ctx, env, 1).k
    /\ desc = ""
    /\ reparsed = EmptyContext
    /\ blocks = <<>>
    /\ summarized = <<>>
    /\ calls = <<>>
    /\ raised = NoRaise
    /\ reply = ""
    /\ patches = <<>>
    /\ files = <<>>
    /\ out = <<>>
    /\ snippets = <<>>
    /\ external_blocks = <<>>
    /\ prompts = <<>>
    /\ status = "running"
    /\ repo_url = ""
    /\ branch_name = ""

NextFiles == GatherFile

SpecFiles == InitFiles /\ [][NextFiles]_vars

(***************************************************************************)
(* Properties of gather_candidate_files                                    *)
(***************************************************************************)
\* the loop over the requested paths is over
FilesDone == pc \notin {"files", "raised"}

DistinctPaths == {ctx.file_paths[i] : i \in 1..Len(ctx.file_paths)}

\* the share the contract gives each file
ShareByDistinct == Max(env.prompt_budget \div Max(Cardinality(DistinctPaths), 1), 1)

\* C15: gather_candidate_files returns a mapping for every budget and path
\* sequence, and each returned content is the content of the file cut to
\* the budget divided by the number of distinct requested paths
C15_ShareByDistinctPaths ==
    /\ pc # "raised"
    /\ FilesDone =>
           \A i \in 1..Len(snippets) :
               snippets[i].text
                   = Shorten(TextOf(env.checkout, snippets[i].label), ShareByDistinct).val

\* C16: a requested path that is not in the checkout is skipped without
\* error; a content no longer than the share is returned character for
\* character; a longer one is returned as a prefix and a suffix of the
\* content around the placeholder
C16_UntouchedWithinShare ==
    /\ pc = "raised" => HasLabel(env.checkout, ctx.file_paths[k])
    /\ FilesDone =>
           /\ \A i \in 1..Len(ctx.file_paths) :
                  HasLabel(snippets, ctx.file_paths[i]) <=> HasLabel(env.checkout, ctx.file_paths[i])
           /\ \A i \in 1..Len(snippets) :
                  \E content \in {TextOf(env.checkout, snippets[i].label)},
                     share \in {PerFileShare(env.prompt_budget, ctx.file_paths)} :
                      IF Len(content) <= share
                      THEN snippets[i].text = content
                      ELSE \E a \in 1..Len(content), b \in 1..Len(content) :
                               snippets[i].text
                                   = TakeFirst(content, a) \o Placeholder
                                       \o DropFirst(content, Len(content) - b)

(***************************************************************************)
(* prompt_builder.py: build_prompt                                         *)
(***************************************************************************)
\* "--- BEGIN <what> ---\n<content>\n--- END <what> ---\n" for every entry
RECURSIVE Delimited(_, _)
Delimited(prefix, m) ==
    IF m = <<>> THEN ""
    ELSE "--- BEGIN " \o prefix \o Head(m).label \o " ---\n" \o Head(m).text
             \o "\n--- END " \o prefix \o Head(m).label \o " ---\n"
             \o Delimited(prefix, Tail(m))

\* the prompt up to the preview: ticket, snippets, external references
PromptBody(issue, instructions, repo_snippets, blocks_in) ==
    "You are a senior software engineer tasked with implementing Jira ticket " \o issue.key
        \o ".\n\nTicket summary: " \o issue.summary
        \o "\n\nTicket description (user instructions):\n" \o instructions
        \o "\n\nRepository snippets (read=only context):\n"
        \o Delimited("FILE ", repo_snippets)
        \o (IF blocks_in = <<>> THEN ""
            ELSE "\nExternal references (read=only context):\n" \o Delimited("", blocks_in))

DefaultPromptPreview == 800

\* int(getenv("LOG_PROMPT_PREVIEW_CHARS", "800")): the settings of the model
\* are the variable unset, a number, and a text that is no number
PromptPreviewChars(setting) ==
    CASE setting = "unset" -> Ok(DefaultPromptPreview)
      [] setting = "0" -> Ok(0)
      [] setting = "5" -> Ok(5)
      [] OTHER -> Exc("ValueError", "invalid literal for int()")

\* the log of the preview: what the try block prints, nothing when int() raises
PreviewOf(prompt, n) ==
    IF n.exc # NoExc \/ n.val <= 0 THEN <<>>
    ELSE <<"Prompt preview (" \o IntToStr(Len(prompt)) \o " chars total):\n"
             \o TakeFirst(prompt, n.val) \o (IF Len(prompt) > n.val THEN "~" ELSE "")>>

\* the output-format contract that ends every prompt
OutputContract ==
    "\nReturn ONLY valid JSON shaped as:\n"
        \o "{ \"patches\": [ { \"path\": \"relative/file\", \"content\": \"new content~\" }, ~ ] }\n"
        \o "No markdown fences, no commentary."

\* an assembler that put what it logged into the prompt
AssembledWithPreview(body, prints) == body \o Join(prints) \o OutputContract

\* prompt += (the output-format contract)
Assembled(body, prints) == body \o OutputContract

Built(body, prints) == [prompt |-> Assembled(body, prints), prints |-> prints]

Previewed(body, setting) == Built(body, PreviewOf(body, PromptPreviewChars(setting)))

\* build_prompt(issue, ctx, repo_snippets, external_blocks) under the setting
\* of LOG_PROMPT_PREVIEW_CHARS: the text returned and what is printed
build_prompt(issue, c, repo_snippets, blocks_in, setting) ==
    Previewed(PromptBody(issue, c.instructions, repo_snippets, blocks_in), setting)

PromptFrame ==
    UNCHANGED <<desc, ctx, reparsed, blocks, k, calls, summarized, raised, reply, patches,
                files, snippets, external_blocks, status,
                repo_url, branch_name>>

\* prompt = build_prompt(issue, ctx, repo_snippets, external_blocks)
BuildPrompt ==
    /\ pc = "prompt"
    /\ \E b \in {build_prompt(env.issue, ctx, snippets, external_blocks, env.log_preview)} :
           /\ prompts' = Append(prompts, b.prompt)
           /\ out' = out \o b.prints
    /\ pc' = "generate"
    /\ UNCHANGED env
    /\ PromptFrame

(***************************************************************************)
(* Two calls of build_prompt on the same inputs, the environment setting   *)
(* free to change between them                                             *)
(***************************************************************************)
MaxPromptCalls == 2

LogSettings == {"unset", "0", "5", "abc"}

\* build_prompt is called once more on the inputs of the call before,
\* under whatever the environment holds by then
CallAgain ==
    /\ pc = "generate"
    /\ Len(prompts) < MaxPromptCalls
    /\ \E setting \in LogSettings : env' = [env EXCEPT !.log_preview = setting]
    /\ pc' = "prompt"
    /\ UNCHANGED <<prompts, out>>
    /\ PromptFrame

Issues == {[key |-> "ENG-1", summary |-> "Add retry"], [key |-> "ENG-2", summary |-> ""]}

PromptInstructions == {"", "Fix the parser\nin  and keep the tests"}

PromptSnippets == {<<>>, <<Entry("a.py", "x = 1 y = 2")>>,
                   <<Entry("d/c.py", "alpha\n~\n"), Entry("b.py", "")>>}

PromptBlocks == {<<>>, <<Entry("WEB[1]: https://e.com/a", "ab cd")>>,
                 <<Entry("SYNTHESIS", "brief"), Entry("CONFLUENCE[1] ERROR", "Failed to fetch x: y"),
                   Entry("GITHUB_PR[1] PR", "Title: Add")>>}

InitPrompt ==
    /\ pc = "prompt"
    /\ env \in [budget : {DefaultBudget}, cap : {DefaultCap}, summarize : {TRUE},
                api_key : {TRUE}, jira_creds : {TRUE}, gh : {TRUE},
                issue : Issues, log_preview : LogSettings]
    /\ ctx \in {[EmptyContext EXCEPT !.instructions = i] : i \in PromptInstructions}
    /\ snippets \in PromptSnippets
    /\ external_blocks \in PromptBlocks
    /\ desc = ""
    /\ reparsed = EmptyContext
    /\ k = 0
    /\ blocks = <<>>
    /\ summarized = <<>>
    /\ calls = <<>>
    /\ raised = NoRaise
    /\ reply = ""
    /\ patches = <<>>
    /\ files = <<>>
    /\ out = <<>>
    /\ prompts = <<>>
    /\ status = "running"
    /\ repo_url = ""
    /\ branch_name = ""

NextPrompt ==
    \/ BuildPrompt
    \/ CallAgain

SpecPrompt == InitPrompt /\ [][NextPrompt]_vars

(***************************************************************************)
(* Properties of build_prompt                                              *)
(***************************************************************************)
\* C14: the prompts returned by the calls of build_prompt on one ticket
\* identifier, summary, instructions, snippet mapping and block mapping are
\* the same text, character for character, whatever the environment held at
\* each call; the text ends with the output-format contract
C14_PromptDeterministic ==
    \A i, j \in 1..Len(prompts) :
        /\ prompts[i] = prompts[j]
        /\ EndsWith(prompts[i], OutputContract)

\* C14 happens: build_prompt was called twice on snippets and blocks, once
\* with the preview logged and once without
C14_Witness ==
    /\ Len(prompts) = 2
    /\ Len(out) = 1
    /\ snippets # <<>>
    /\ Len(external_blocks) = 3
    /\ Contains(prompts[2], "--- BEGIN SYNTHESIS ---\nbrief\n--- END SYNTHESIS ---\n")

(***************************************************************************)
(* ai_integration.py synthesize_summaries_with_gemini, and the synthesis   *)
(* step of generate_changes_with_ai                                        *)
(***************************************************************************)
DefaultSynthesisLimit == 2000

\* What the language-model capability can answer to the synthesis prompt
SynthesisTexts == {"one brief\n"}

\* "\n\n".join([f"[{k}]\n{v}" for k, v in external_blocks.items()])
SummariesBlock(m) ==
    JoinWith("\n\n", [i \in 1..Len(m) |-> "[" \o m[i].label \o "]\n" \o m[i].text])

\* synthesize_summaries_with_gemini(summaries_block, ..., char_limit), given
\* the result g of its call_gemini: shorten the answer, and on any exception
\* of the try block shorten the summaries instead
synthesize_summaries_with_gemini(summaries_block, char_limit, g) ==
    LET t == IF g.exc = NoExc THEN Shorten(g.val, char_limit) ELSE g
    IN IF t.exc = NoExc THEN t ELSE Shorten(summaries_block, char_limit)

\* m.update(entries)
RECURSIVE PutAll(_, _)
PutAll(m, entries) ==
    IF entries = <<>> THEN m
    ELSE PutAll(Put(m, Head(entries).label, Head(entries).text), Tail(entries))

\* a synthesis that replaced the per-source blocks
SynthesisOnly(synthesis, m) == <<Entry("SYNTHESIS", synthesis)>>

\* {"SYNTHESIS": synthesis, **external_blocks}
WithSynthesis(synthesis, m) == PutAll(<<Entry("SYNTHESIS", synthesis)>>, m)

SynthesisFrame ==
    UNCHANGED <<env, desc, ctx, reparsed, blocks, k, summarized, reply, patches, files, out,
                snippets, prompts, status,
                repo_url, branch_name>>

\* a synthesis step that runs whatever the toggle says
SynthesizeIgnoringToggle ==
    /\ pc = "returned"
    /\ IF blocks = <<>>
       THEN /\ external_blocks' = blocks
            /\ pc' = "prompt"
            /\ UNCHANGED <<calls, raised>>
       ELSE \E g \in call_gemini(env, SynthesisTexts) :
              \E r \in {synthesize_summaries_with_gemini(SummariesBlock(blocks),
                                                         env.synthesis_limit, g)} :
                 /\ calls' = Append(calls, Call("call_gemini", "SYNTHESIS", g))
                 /\ IF r.exc # NoExc
                    THEN /\ raised' = [exc |-> r.exc, msg |-> r.msg]
                         /\ pc' = "raised"
                         /\ UNCHANGED external_blocks
                    ELSE /\ external_blocks' = WithSynthesis(r.val, blocks)
                         /\ pc' = "prompt"
                         /\ UNCHANGED raised
    /\ SynthesisFrame

\* lines 125-131: the optional cross-source synthesis
Synthesize ==
    /\ pc = "returned"
    /\ IF ~env.synthesize \/ blocks = <<>>
       THEN /\ external_blocks' = blocks
            /\ pc' = "prompt"
            /\ UNCHANGED <<calls, raised>>
       ELSE \E g \in call_gemini(env, SynthesisTexts) :
              \E r \in {synthesize_summaries_with_gemini(SummariesBlock(blocks),
                                                         env.synthesis_limit, g)} :
                 /\ calls' = Append(calls, Call("call_gemini", "SYNTHESIS", g))
                 /\ IF r.exc # NoExc
                    THEN /\ raised' = [exc |-> r.exc, msg |-> r.msg]
                         /\ pc' = "raised"
                         /\ UNCHANGED external_blocks
                    ELSE /\ external_blocks' = WithSynthesis(r.val, blocks)
                         /\ pc' = "prompt"
                         /\ UNCHANGED raised
    /\ SynthesisFrame

(***************************************************************************)
(* pipeline.py run_pipeline: the steps before generate_changes_with_ai,    *)
(* and main.py: the completion status                                      *)
(***************************************************************************)
SetupFrame ==
    UNCHANGED <<env, desc, ctx, reparsed, blocks, k, summarized, reply, patches, files, out,
                snippets, external_blocks, prompts, status>>

\* one step of run_pipeline that either raises or hands over to the next
Proceed(result, op, next) ==
    /\ calls' = IF op = "" THEN calls ELSE Append(calls, Call(op, "", result))
    /\ raised' = IF result.exc = NoExc THEN raised ELSE [exc |-> result.exc, msg |-> result.msg]
    /\ pc' = IF result.exc = NoExc THEN next ELSE "failed"
    /\ SetupFrame

\* get_jira_client(): os.environ["JIRA_URL"] and the two credentials
get_jira_client(e) == IF e.jira_set THEN Ok("") ELSE Exc("KeyError", "JIRA_URL")

\* STEP 1: jira = get_jira_client(); issue = fetch_issue(jira, issue_key)
FetchTicket ==
    /\ pc = "ticket"
    /\ IF get_jira_client(env).exc # NoExc
       THEN Proceed(get_jira_client(env), "", "repo")
       ELSE \E r \in {Ok(""), Exc("JIRAError", "404")} : Proceed(r, "jira.issue", "repo")
    /\ UNCHANGED <<repo_url, branch_name>>

\* extract_repo_url(issue): the first GitHub url of the description, else its
\* first token holding ".git", else the first of the custom fields (fields:
\* their values in the order of possible_repo_fields, "" for a missing one)
\* that names a repository
extract_repo_url(description, fields) ==
    LET github_urls == FindAll("github", description)
        git_urls == FindAll("git", description)
        named == SelectSeq(fields, LAMBDA v : v # "" /\ (Contains(v, "github.com")
                                                            \/ Contains(v, ".git")))
    IN IF github_urls # <<>> THEN Ok(Stored(github_urls[1]))
       ELSE IF git_urls # <<>> THEN Ok(Stored(git_urls[1]))
       ELSE IF named # <<>> THEN Ok(named[1])
       ELSE Exc("ValueError",
                "Repository URL must be specified in ticket description or custom field.")

\* STEP 2: repo_url = extract_repo_url(issue)
ExtractRepoUrl ==
    /\ pc = "repo"
    /\ \E r \in {extract_repo_url(desc, env.repo_fields)} :
          /\ repo_url' = IF r.exc = NoExc THEN r.val ELSE repo_url
          /\ Proceed(r, "", "github")
    /\ UNCHANGED branch_name

\* STEP 3: get_github_client(): os.environ["GITHUB_TOKEN"]
ConnectGithub ==
    /\ pc = "github"
    /\ Proceed(IF env.gh_token THEN Ok("") ELSE Exc("KeyError", "GITHUB_TOKEN"), "", "clone")
    /\ UNCHANGED <<repo_url, branch_name>>

\* desired_branch = f"ai/{issue.key.lower()}"
DesiredBranch(issue) == "ai/" \o Lower(issue.key)

\* the stand-in for time.strftime("%Y%m%d%H%M%S")
ClockSuffix == "20260101000000"

\* final_branch of clone_and_branch: the desired name, or the name with the
\* actor and the clock when the remote holds the desired name already
FinalBranch(desired, exists_remote) ==
    IF exists_remote THEN desired \o "-runner-" \o ClockSuffix ELSE desired

\* a url that names a repository of the host: <owner>/<name> and nothing after
IsRepositoryUrl(url) ==
    \E p \in {"https://github.com/", "git@github.com:"} :
        \E m \in {HostPatternAt(p, url, 1, "", {}, 0)} :
            m.ok /\ Len(p) + Len(m.owner) + 1 + Len(m.repo) = Len(url)

\* what "git clone" and "git checkout -b" can answer together: a url that
\* names no repository is never cloned
CloneResults(url) == IF IsRepositoryUrl(url) THEN BOOLEAN ELSE {FALSE}

\* STEP 4: repo_path, branch_name = clone_and_branch(repo_url, desired_branch, tmp)
CloneAndBranch ==
    /\ pc = "clone"
    /\ \E cloned \in CloneResults(repo_url) :
          \E final \in {FinalBranch(DesiredBranch(env.issue), env.exists_remote)} :
             /\ branch_name' = IF cloned THEN final ELSE branch_name
             /\ calls' = Append(calls,
                                Call("git clone", repo_url,
                                     IF cloned THEN Ok("") ELSE Exc("CalledProcessError", "128"))
                                    @@ [branch |-> IF cloned THEN final ELSE ""])
             /\ raised' = IF cloned THEN raised
                          ELSE [exc |-> "CalledProcessError", msg |-> "128"]
             /\ pc' = IF cloned THEN "context" ELSE "failed"
    /\ UNCHANGED repo_url
    /\ SetupFrame

\* budget_chars = ...; repo_snippets = gather_candidate_files(...): the entry
\* of the loop over the hinted paths
StartSnippets ==
    /\ pc = "merged"
    /\ pc' = FilesPos(ctx, env, 1).pc
    /\ k' = FilesPos(ctx, env, 1).k
    /\ UNCHANGED <<calls, raised>>
    /\ UNCHANGED <<env, desc, ctx, reparsed, blocks, summarized, reply, patches, files, out,
                   snippets, external_blocks, prompts, status,
                repo_url, branch_name>>

\* the completion status of the interpreter: main.py re-raises an exception
\* (status 1), SystemExit carries its own status, a normal return gives 0
ExitStatus(at, exception) ==
    IF at = "done" THEN 0
    ELSE IF exception.exc = "SystemExit" THEN 0 ELSE 1

\* main.py 12-20: the end of the process
Exit ==
    /\ pc \in {"done", "failed", "raised", "exited"}
    /\ status' = ExitStatus(pc, raised)
    /\ out' = IF pc \in {"failed", "raised"}
              THEN out \o <<"Error occurred: " \o raised.msg>>
              ELSE out
    /\ pc' = "ended"
    /\ UNCHANGED <<env, desc, ctx, reparsed, blocks, k, calls, summarized, raised, reply,
                   patches, files, snippets, external_blocks, prompts, repo_url,
                   branch_name>>

(***************************************************************************)
(* The runs of the whole pipeline                                          *)
(***************************************************************************)
\* a ticket without a text, a ticket that names its repository and its
\* references, a ticket whose first GitHub url is a pull request, and a
\* ticket that names its repository without the suffix
PipelineDescriptions ==
    {"",
     "https://github.com/o/r.git Update {{a.py}} per https://w/confluence?pageId=7 and https://github.com/o/r/issues/3",
     "As in https://github.com/o/r/pull/1",
     "In https://github.com/o/widget as in https://github.com/o/r/pull/1"}

\* the values of the custom fields that may name the repository
RepoFields ==
    {<<"https://github.com/o/r.git", "", "", "", "">>,
     <<"", "", "", "", "">>,
     <<"n/a", "https://github.com/o/widget", "", "", "">>,
     <<"", "", "git@github.com:o/r.git", "", "">>}

PipelineRemotes == {[ok |-> TRUE, links |-> <<>>], [ok |-> TRUE, links |-> <<"https://e.com/a">>]}

PipelineAnswers ==
    {"{\"patches\":[{\"path\":\"a.py\",\"content\":\"x\"}]}", "{\"patches\":[]}", "no"}

\* everything set and enabled
BaseEnv ==
    [budget |-> DefaultBudget, cap |-> DefaultCap, summarize |-> TRUE, api_key |-> TRUE,
     jira_creds |-> TRUE, gh |-> TRUE, jira_set |-> TRUE, gh_token |-> TRUE,
     repo_fields |-> <<"https://github.com/o/r.git", "", "", "", "">>, exists_remote |-> FALSE,
     remote |-> [ok |-> TRUE, links |-> <<>>], prompt_budget |-> DefaultPromptBudget,
     checkout |-> Checkout, synthesize |-> TRUE, synthesis_limit |-> DefaultSynthesisLimit,
     issue |-> [key |-> "ENG-1", summary |-> "Add retry"], log_preview |-> "unset",
     answers |-> PipelineAnswers]

\* the base environment, and the environments that differ from it in one
\* setting: a credential or identifier missing, a step switched off, a
\* narrow budget
PipelineEnvs ==
    {[BaseEnv EXCEPT !.remote = r] : r \in PipelineRemotes}
        \cup {[BaseEnv EXCEPT !.repo_fields = f] : f \in RepoFields}
        \cup {[BaseEnv EXCEPT !.api_key = FALSE],
              [BaseEnv EXCEPT !.jira_set = FALSE, !.jira_creds = FALSE],
              [BaseEnv EXCEPT !.jira_creds = FALSE],
              [BaseEnv EXCEPT !.gh_token = FALSE],
              [BaseEnv EXCEPT !.exists_remote = TRUE],
              [BaseEnv EXCEPT !.synthesize = FALSE],
              [BaseEnv EXCEPT !.summarize = FALSE],
              [BaseEnv EXCEPT !.synthesis_limit = 1],
              [BaseEnv EXCEPT !.prompt_budget = 1]}

\* the custom fields are read only when the description names no repository
InitPipeline ==
    /\ pc = "ticket"
    /\ env \in PipelineEnvs
    /\ desc \in PipelineDescriptions
    /\ desc = "" \/ env.repo_fields = BaseEnv.repo_fields
    /\ ctx = EmptyContext
    /\ reparsed = EmptyContext
    /\ k = 0
    /\ blocks = <<>>
    /\ summarized = <<>>
    /\ calls = <<>>
    /\ raised = NoRaise
    /\ reply = ""
    /\ patches = EmptyList
    /\ files = <<>>
    /\ out = <<>>
    /\ snippets = <<>>
    /\ external_blocks = <<>>
    /\ prompts = <<>>
    /\ status = "running"
    /\ repo_url = ""
    /\ branch_name = ""

NextPipeline ==
    \/ FetchTicket
    \/ ExtractRepoUrl
    \/ ConnectGithub
    \/ CloneAndBranch
    \/ BuildContext
    \/ MergeLink
    \/ StartSnippets
    \/ GatherFile
    \/ FetchConfluence
    \/ FetchPr
    \/ FetchGeneric
    \/ Allocate
    \/ Summarize
    \/ FinalTrim
    \/ Synthesize
    \/ BuildPrompt
    \/ Generate
    \/ ParseReply
    \/ ApplyPatch
    \/ CommitPush
    \/ CreatePullRequest
    \/ Exit

SpecPipeline == InitPipeline /\ [][NextPipeline]_vars

(***************************************************************************)
(* Properties of the whole pipeline                                        *)
(***************************************************************************)
\* the stage of an external call: 1-3 the fetches of the three kinds, 4 a
\* summarization, 5 the synthesis, 6 the generation; 0 before, 7 after
Stage(c) ==
    CASE c.op = "fetch_confluence_page" -> 1
      [] c.op = "fetch_github_pr_context" -> 2
      [] c.op = "fetch_generic_page" -> 3
      [] c.op = "call_gemini" /\ c.arg = "SYNTHESIS" -> 5
      [] c.op = "call_gemini" /\ c.arg = "prompt" -> 6
      [] c.op = "call_gemini" -> 4
      [] c.op \in {"jira.issue", "git clone"} -> 0
      [] OTHER -> 7

\* the calls of the stages in S, in the order they were issued
CallsOf(S) == SelectSeq(calls, LAMBDA c : Stage(c) \in S)

\* C12: the external calls were issued one after the other in the order of
\* the stages: the documentation fetches in list order, then the code-review
\* fetches, then the generic fetches, then one summarization per block in
\* block order, then at most one synthesis, then the generation; a call of
\* a later stage is issued only when every call of the earlier stages is over
C12_CallsInStageOrder ==
    /\ \A i, j \in 1..Len(calls) : i < j => Stage(calls[i]) <= Stage(calls[j])
    /\ \E fetches \in {CallsOf({1, 2, 3})}, refs \in {References(ctx)} :
           /\ Len(fetches) <= Len(refs)
           /\ \A i \in 1..Len(fetches) : <<fetches[i].op, fetches[i].arg>> = refs[i]
           /\ CallsOf({4, 5, 6}) # <<>> => Len(fetches) = Len(refs)
    /\ \E summaries \in {CallsOf({4})} :
           /\ Len(summaries) <= Len(blocks)
           /\ \A i \in 1..Len(summaries) : summaries[i].arg = blocks[i].label
           /\ (CallsOf({5, 6}) # <<>> /\ env.summarize) => Len(summaries) = Len(blocks)
    /\ Len(CallsOf({5})) <= 1
    /\ Len(CallsOf({6})) <= 1
    /\ CallsOf({6}) # <<>> =>
           (Len(CallsOf({5})) = 1 <=> (env.synthesize /\ blocks # <<>>))

\* C12 happens: the generation call was issued after fetches of two kinds,
\* one of them failed, three summarizations and the synthesis
C12_Witness ==
    /\ Len(CallsOf({6})) = 1
    /\ Len(CallsOf({5})) = 1
    /\ Len(CallsOf({4})) = 3
    /\ CallsOf({2}) # <<>>
    /\ CallsOf({3}) # <<>>
    /\ \E i \in 1..Len(calls) : Stage(calls[i]) = 3 /\ ~calls[i].ok

\* the synthesis step produced the mapping handed to build_prompt
SynthesisRan == CallsOf({5}) # <<>> /\ (pc = "prompt" \/ prompts # <<>>)

\* C13: when synthesis ran, the mapping handed to build_prompt is the block
\* SYNTHESIS followed by the blocks gather_external_context returned, each
\* with its label and text and in their order
C13_SynthesisAugments ==
    SynthesisRan =>
        /\ Len(external_blocks) = Len(blocks) + 1
        /\ external_blocks[1].label = "SYNTHESIS"
        /\ Tail(external_blocks) = blocks

\* C13 happens: the prompt was built after a synthesis over three blocks
C13_Witness ==
    /\ pc = "generate"
    /\ Len(CallsOf({5})) = 1
    /\ Len(blocks) = 3
    /\ Len(external_blocks) = 4
    /\ Contains(prompts[1], "--- BEGIN SYNTHESIS ---\n" \o external_blocks[1].text)

\* the errors of a missing credential or identifier
ConfigurationErrors ==
    {"GEMINI_API_KEY env var missing.",
     "JIRA_EMAIL and JIRA_TOKEN are required to read Confluence content",
     "JIRA_URL", "GITHUB_TOKEN",
     "Repository URL must be specified in ticket description or custom field."}

\* C17: the first operation that needs a missing credential or identifier
\* aborts the run: once a call has failed on a configuration error it is
\* the last call, the run has failed with that error, and no block, summary,
\* prompt or file was produced after it
C17_ConfigurationErrorIsFatal ==
    \A i \in 1..Len(calls) :
        calls[i].err \in ConfigurationErrors =>
            /\ i = Len(calls)
            /\ pc \in {"failed", "raised", "ended"}
            /\ raised.msg = calls[i].err

\* C18: a run that ended on an error has a completion status other than
\* zero, and a run has the status zero only when the pull request was created
C18_StatusZeroOnlyAfterPullRequest ==
    pc = "ended" =>
        /\ raised.exc # NoExc => status # 0
        /\ status = 0 => \E i \in 1..Len(calls) : calls[i].op = "create_pull" /\ calls[i].ok

\* the kinds of the ticket context and the tags of their block labels
KindTags ==
    [confluence_urls |-> "CONFLUENCE", github_pr_urls |-> "GITHUB_PR",
     github_issue_urls |-> "GITHUB_ISSUE", github_commit_urls |-> "GITHUB_COMMIT",
     generic_urls |-> "WEB"]

\* C19: when the fetch loops are over, every url of every kind list was
\* handed to a fetch, and the blocks hold at least one block labelled with
\* the kind of the url and its index within the kind
C19_EveryUrlHasBlock ==
    pc = "alloc" =>
        \A f \in KindLists : \A i \in 1..Len(ctx[f]) :
            /\ \E j \in 1..Len(calls) : Stage(calls[j]) \in {1, 2, 3} /\ calls[j].arg = ctx[f][i]
            /\ \E j \in 1..Len(blocks) :
                   StartsWith(blocks[j].label, KindTags[f] \o "[" \o IntToStr(i) \o "]")

\* the synthesis step is over: the mapping was handed to build_prompt
SynthesisOver == pc = "prompt" \/ prompts # <<>>

\* C24: the synthesis capability is invoked at most once in a run, and only
\* with the toggle on and at least one block returned by the allocator;
\* when the step is over it was invoked exactly once in that case, and
\* otherwise never, the mapping handed to build_prompt being the returned
\* blocks with no SYNTHESIS entry
C24_SynthesisOnceWhenEnabled ==
    /\ Len(CallsOf({5})) <= 1
    /\ CallsOf({5}) # <<>> => (env.synthesize /\ blocks # <<>>)
    /\ SynthesisOver =>
           IF env.synthesize /\ blocks # <<>>
           THEN Len(CallsOf({5})) = 1
           ELSE /\ CallsOf({5}) = <<>>
                /\ external_blocks = blocks
                /\ ~HasLabel(external_blocks, "SYNTHESIS")

\* C24 happens: a whole run with exactly one synthesis call ended with the
\* pull request created
C24_Witness ==
    /\ pc = "ended"
    /\ status = 0
    /\ env.synthesize
    /\ blocks # <<>>
    /\ Len(CallsOf({5})) = 1
    /\ HasLabel(external_blocks, "SYNTHESIS")

\* C25: a failed synthesis call is never fatal: after the synthesis call the
\* run goes on to the generation call, the SYNTHESIS block is at most the
\* synthesis limit long whether the call answered or failed, and after a
\* failed call it is the text of the labelled blocks cut to the limit
C25_SynthesisFailureNotFatal ==
    \A i \in 1..Len(calls) :
        Stage(calls[i]) = 5 =>
            /\ i = Len(calls) => pc \in {"prompt", "generate"}
            /\ SynthesisOver =>
                   /\ Len(external_blocks[1].text) <= env.synthesis_limit
                   /\ ~calls[i].ok =>
                          external_blocks[1].text
                              = TakeFirst(SummariesBlock(blocks), env.synthesis_limit)

\* C25, the fatal outcome alone: after the synthesis call the run goes on
C25_RunContinues ==
    \A i \in 1..Len(calls) :
        (Stage(calls[i]) = 5 /\ i = Len(calls)) => pc \in {"prompt", "generate"}

\* C25, the length alone: the SYNTHESIS block is within the limit
C25_WithinLimit ==
    (SynthesisOver /\ CallsOf({5}) # <<>>) =>
        Len(external_blocks[1].text) <= env.synthesis_limit

\* the pull-request calls of the run
PullRequestCalls == {i \in 1..Len(calls) : calls[i].op = "create_pull"}

\* the owner and the name of the repository that a repository url names:
\* the two segments after the host, the suffix ".git" left out
OwnerAndName(url) ==
    LET bare == IF EndsWith(url, ".git") THEN DropLast(url, 4) ELSE url
        m == CHOOSE r \in {HostPatternAt(p, bare, 1, "", {}, 0) :
                              p \in {"https://github.com/", "git@github.com:"}} : r.ok
    IN m.owner \o "/" \o m.repo

\* C28: the repository that create_pull_request is called with is the owner
\* and the name of the repository url that extract_repo_url returned and
\* that was cloned, with or without the suffix ".git"
C28_PullRequestToClonedRepository ==
    \A i \in PullRequestCalls : calls[i].arg = OwnerAndName(repo_url)

\* C28, the https urls whose repository name ends in none of the characters
\* ".", "g", "i", "t": the pull request goes to the cloned repository
C28_NamesNotEndingInSuffixLetters ==
    \A i \in PullRequestCalls :
        (/\ StartsWith(repo_url, "https://")
         /\ \A c \in {".", "g", "i", "t"} : ~EndsWith(OwnerAndName(repo_url), c))
            => calls[i].arg = OwnerAndName(repo_url)

\* C29: a pull request is created only after the clone, the generation, the
\* application of every patch, the commit and the push succeeded, in that
\* order; its head is the branch that clone_and_branch returned and that was
\* pushed; after a failed commit or push no pull request is created
C29_PullRequestAfterPush ==
    /\ \A i \in PullRequestCalls :
           /\ i > 2
           /\ calls[i - 1].op = "git push" /\ calls[i - 1].ok
           /\ calls[i - 2].op = "git commit" /\ calls[i - 2].ok
           /\ \E g \in 1..(i - 3) :
                  /\ Stage(calls[g]) = 6 /\ calls[g].ok
                  /\ \E c \in 1..(g - 1) :
                         /\ calls[c].op = "git clone" /\ calls[c].ok
                         /\ calls[c].branch = calls[i].head
           /\ calls[i - 1].arg = calls[i].head
           /\ files # <<>> /\ Len(files) = Len(Iter(patches))
    /\ \A i \in 1..Len(calls) :
           (calls[i].op \in {"git commit", "git push"} /\ ~calls[i].ok) => PullRequestCalls = {}

\* C29 happens: the remote held the desired branch, the branch with the
\* actor and the clock was pushed, and the pull request was created from it
C29_Witness ==
    /\ pc = "ended"
    /\ status = 0
    /\ env.exists_remote
    /\ \E i \in PullRequestCalls :
           /\ calls[i].ok
           /\ calls[i].head = "ai/eng-1-runner-" \o ClockSuffix
           /\ calls[i - 1].arg = calls[i].head

(***************************************************************************)
(* Properties of apply_patches: where the files are written                *)
(***************************************************************************)
\* the directories and the name the file system reaches for the segments:
\* "" and "." stay, ".." goes up (and stays at the top)
RECURSIVE Reached(_, _)
Reached(segments, at) ==
    IF segments = <<>> THEN at
    ELSE Reached(Tail(segments),
                 IF Head(segments) \in {"", "."} THEN at
                 ELSE IF Head(segments) = ".."
                      THEN (IF at = <<>> THEN at ELSE SubSeq(at, 1, Len(at) - 1))
                      ELSE Append(at, Head(segments)))

Location(path) == Reached(SegmentsFrom(path, 1), <<>>)

\* the location lies below the checkout root
UnderRoot(path) ==
    /\ Len(Location(path)) > Len(Location(RepoPath))
    /\ SubSeq(Location(path), 1, Len(Location(RepoPath))) = Location(RepoPath)

\* C20: every file that apply_patches wrote for the edits the parser
\* returned lies below the checkout root
C20_WritesStayUnderRoot ==
    \A i \in 1..Len(files) : UnderRoot(files[i].dst)

====
